---- MODULE Spec2Model ----
(***************************************************************************)
(* Model of the AIM Python SDK client (sdk/python/aim_sdk/client.py):      *)
(* the action-verification state machine verify_action /                   *)
(* _wait_for_approval / log_action_result and the function wrappers        *)
(* perform_action, track_action and require_approval built on it.          *)
(*                                                                         *)
(* Further parts model one AIMClient's authenticated requests, the poll    *)
(* loop of the demo agent's SDK copy, SecureCredentialStorage              *)
(* (sdks/python/aim_sdk/secure_storage.py), OAuthTokenManager              *)
(* (demo-agent-aim-sdk/sdk/python/aim_sdk/oauth.py) and register_agent     *)
(* with _save_credentials / _load_credentials, the aim_verify decorator,   *)
(* report_capabilities, MCPDetector.detect_all and                         *)
(* ProtocolDetector.detect_protocol; each has its own specification over   *)
(* the same variables.                                                     *)
(*                                                                         *)
(* Time is counted in eighths of a second, the resolution at which the     *)
(* poll interval sequence 2, 3, 4.5, 6.75, 10 is exact.  The clock `now`   *)
(* is the time elapsed since the current invocation started.               *)
(***************************************************************************)
EXTENDS Integers, Sequences, FiniteSets, TLC

VARIABLES
    kind,             \* entry point of the current invocation
    pc,               \* position of the invocation
    now,              \* clock, eighths of a second since the invocation began
    timeout_seconds,  \* timeout_seconds handed to verify_action
    start_time,       \* _wait_for_approval: start_time
    poll_interval,    \* _wait_for_approval: poll_interval (eighths of a second)
    srv_status,       \* server: status of this invocation's verification request
    srv_expires_at,   \* server: expires_at of the approval
    post_outcome,     \* what the initial POST met
    last_poll,        \* what the most recent poll GET met
    wait_exit,        \* how _wait_for_approval ended
    timed_out,        \* _wait_for_approval left its loop by the deadline
    vres,             \* what verify_action returned or raised
    posts,            \* POST /sdk-api/verifications sent by this invocation
    gets,             \* GET /sdk-api/verifications/{id} sent by this invocation
    log_calls,        \* result-log POSTs attempted, in order
    log_outcome,      \* what the result-log POST met
    executed,         \* number of times the wrapped body was invoked
    exec_time,        \* clock value at which the body started
    body,             \* outcome of the wrapped body
    ret,              \* what the entry point returned or raised to its caller
    srv_reason,       \* server: denial_reason of the decision ("" when it sends none)
    vmsg,             \* message of the ActionDeniedError verify_action raised
    \* -- one AIMClient and its authenticated requests
    cfg,              \* the client's credentials and retry settings
    req_pc,           \* position of the current _make_request call
    retry_count,      \* _make_request: retry_count of the current attempt
    attempts,         \* HTTP attempts made by the current _make_request call
    sleeps,           \* seconds slept before each retry, in order
    mr_last,          \* what the most recent attempt met
    mr_result,        \* how the _make_request call ended
    sent_auth,        \* authentication schemes on the most recent request sent
    sent_by,          \* the function that sent that request
    \* -- _wait_for_approval of the SDK copy shipped with the demo agent
    dw_pc,            \* position in the loop
    dw_elapsed,       \* time.time() - start_time, eighths of a second
    dw_timeout,       \* timeout_seconds
    dw_interval,      \* poll_interval, eighths of a second
    dw_gets,          \* poll GETs sent
    dw_last,          \* what the most recent poll GET met
    \* -- the credential files of one credentials path
    plain_file,       \* contents of credentials.json
    enc_file,         \* contents of credentials.encrypted
    \* -- SecureCredentialStorage
    sto_last,         \* the most recent storage operation
    sto_fault,        \* the step of that operation that failed
    sto_ret,          \* what that operation returned or raised
    sto_before,       \* the plaintext credentials a migration started from
    \* -- one OAuthTokenManager and the threads calling get_access_token
    tm_state,         \* "none" before the manager is constructed, then "ready"
    tm_secure,        \* self.secure_storage is set
    tm_creds,         \* self.credentials, named by the refresh token it holds
    tm_access,        \* self.access_token
    tm_expiry,        \* self.access_token_expiry in seconds, 0 for None
    tm_now,           \* time.time() in seconds
    call,             \* per caller: the current get_access_token call
    rv_ret,           \* what revoke_token returned, "none" once the files are written again
    \* -- register_agent and the agent entries of ~/.aim/credentials.json
    creds_json,       \* the file: its state on disk and the entries it holds
    secure_prims,     \* cryptography and keyring can be imported
    reg_pc,           \* position of the current register_agent call
    reg_mode,         \* auth_mode of that call
    reg_name,         \* name
    reg_creds,        \* credentials: private_key and public_key
    all_creds,        \* _save_credentials: all_creds
    reg_result,       \* what register_agent returned or raised
    rd_obs,           \* the state of the file another process last read
    reg_args,         \* api_key, sdk_token_id and the embedded SDK credentials
    reg_before,       \* the entry under name when the call started
    reg_http,         \* the kinds of HTTP request the call has sent
    reg_report,       \* what client.report_detections met
    \* -- one call of a function wrapped by the aim_verify decorator
    av_pc,            \* position of the wrapper
    av_strict,        \* AIM_STRICT_MODE is "true"
    av_client,        \* where the wrapper's client came from
    av_resource,      \* resource_name passed to verify_action
    av_verif,         \* what client.verify_action gave
    av_exc,           \* the exception the wrapper's except clause caught
    av_calls,         \* the outcomes of the calls of func, in order
    av_result,        \* what the wrapper returned or raised
    \* -- two processes calling _save_credentials on the one credential file
    sv,               \* per process: position, credentials and all_creds
    \* -- AIMClient.report_capabilities and the capabilities the server holds
    rc_pc,            \* position of report_capabilities
    rc_caps,          \* capabilities, the list passed
    rc_i,             \* index of the list entry the loop is at
    rc_granted,       \* granted_count
    rc_clean,         \* every POST so far was answered with a grant or a duplicate
    rc_srv,           \* the capabilities the server has granted to the agent
    rc_auto_retry,    \* self.auto_retry
    rc_original,      \* original_auto_retry
    rc_ret,           \* what report_capabilities returned or raised
    \* -- MCPDetector.detect_all
    det_config,       \* the Claude Desktop config file
    det_modules,      \* sys.modules
    det_dists,        \* importlib.metadata is there, and the installed distributions
    det_out,          \* the list detect_all returned
    \* -- ProtocolDetector.detect_protocol
    dp_explicit,      \* explicit_protocol
    dp_env,           \* the names in os.environ
    dp_modules,       \* sys.modules
    dp_ret            \* what detect_protocol returned

verVars == <<kind, pc, now, timeout_seconds, start_time, poll_interval, srv_status,
             srv_expires_at, post_outcome, last_poll, wait_exit, timed_out, vres,
             posts, gets, log_calls, log_outcome, executed, exec_time,
             body, ret, srv_reason, vmsg>>

reqVars == <<cfg, req_pc, retry_count, attempts, sleeps, mr_last, mr_result,
             sent_auth, sent_by>>

demoVars == <<dw_pc, dw_elapsed, dw_timeout, dw_interval, dw_gets, dw_last>>

diskVars == <<plain_file, enc_file>>

stoVars == <<sto_last, sto_fault, sto_ret, sto_before>>

tokVars == <<tm_state, tm_secure, tm_creds, tm_access, tm_expiry, tm_now, call,
             rv_ret>>

regVars == <<creds_json, secure_prims, reg_pc, reg_mode, reg_name, reg_creds,
             all_creds, reg_result, rd_obs, reg_args, reg_before, reg_http,
             reg_report>>

decVars == <<av_pc, av_strict, av_client, av_resource, av_verif, av_exc, av_calls, av_result>>

saveVars == <<sv>>

capVars == <<rc_pc, rc_caps, rc_i, rc_granted, rc_clean, rc_srv, rc_auto_retry,
             rc_original, rc_ret>>

detVars == <<det_config, det_modules, det_dists, det_out>>

protoVars == <<dp_explicit, dp_env, dp_modules, dp_ret>>

pureVars == <<capVars, detVars, protoVars>>

extVars == <<decVars, saveVars, pureVars>>

credVars == <<diskVars, stoVars, tokVars, regVars, extVars>>

vars == <<verVars, reqVars, demoVars, credVars>>

----------------------------------------------------------------------------
(* Bounds and program constants *)

TicksPerSecond == 8

\* poll_interval = 2
PollInitial == 2
\* min(poll_interval * 1.5, 10)
PollCap == 10
\* track_action passes timeout_seconds=300
TrackTimeout == 300
\* a short timeout_seconds a caller of require_approval / perform_action /
\* verify_action may pass
ShortTimeout == 5
\* a timeout_seconds long enough for the poll interval to reach its cap
MidTimeout == 30
\* time the initial POST may take, in seconds
ReqLatency == 1
\* lifetimes the server may give an approval, in seconds
ShortTtl == 1
LongTtl == 3600

NoExpiry == 0 - 1

Latencies == {0, ReqLatency * TicksPerSecond}
Ttls == {ShortTtl * TicksPerSecond, LongTtl * TicksPerSecond}
Timeouts == {0, ShortTimeout}

Wrappers == {"track_action", "require_approval"}
Kinds == Wrappers \cup {"perform_action", "verify_action"}

\* what the initial POST can meet: an HTTP error status, a transport failure,
\* an undecodable body, or a 200 carrying a status
PostOutcomes == {"401", "403", "404", "400", "500", "neterr", "badjson",
                 "approved", "denied", "pending", "weird"}
\* what a poll GET can meet; "ok" is a 200 carrying the server's current status
PollOutcomes == {"401", "403", "404", "400", "500", "neterr", "badjson", "ok"}
\* what the result-log POST can meet
LogOutcomes == {"200", "401", "404", "500", "neterr", "timeout"}

\* the denial_reason a server may send with a denial; "" stands for none
Reasons == {"", "policy:write"}

Min(a, b) == IF a < b THEN a ELSE b

----------------------------------------------------------------------------
(* verify_action: records and exception handling *)

NoResult ==
    [tag |-> "none", verified |-> FALSE, verification_id |-> "None",
     status |-> "", error |-> "", exc |-> "", expires_at |-> NoExpiry]

\* an exception leaving the function
Raise(e) == [NoResult EXCEPT !.tag = "raise", !.exc = e]

\* variant: the record is built without the id
ApprovedRecordNoId(vid, exp) ==
    [NoResult EXCEPT !.tag = "ret", !.verified = TRUE, !.expires_at = exp]

\* {"verified": True, "verification_id": ..., "approved_by": ..., "expires_at": ...}
ApprovedRecord(vid, exp) ==
    [NoResult EXCEPT !.tag = "ret", !.verified = TRUE,
                     !.verification_id = vid, !.expires_at = exp]

\* {"verified": False, "verification_id": None, "status": "pending", "error": ...}
SyntheticPending(err) ==
    [NoResult EXCEPT !.tag = "ret", !.status = "pending", !.error = err]

\* variant: a transport failure is re-raised as VerificationError, as
\* _make_request does
VerifyActionExceptStrict(e) ==
    CASE e \in {"AuthenticationError", "ActionDeniedError"} -> Raise(e)
      [] e = "RequestException" -> Raise("VerificationError")
      [] e = "JSONDecodeError" -> SyntheticPending("JSON decode error")
      [] OTHER -> SyntheticPending("Unexpected error: " \o e)

\* the except clauses that close verify_action's try block
VerifyActionExcept(e) ==
    CASE e \in {"AuthenticationError", "ActionDeniedError"} -> Raise(e)
      [] e = "RequestException" -> SyntheticPending("Network error")
      [] e = "JSONDecodeError" -> SyntheticPending("JSON decode error")
      [] OTHER -> SyntheticPending("Unexpected error: " \o e)

\* variant: the message does not quote the server's reason
DeniedMessageGeneric(reason, default) == "Action denied: " \o default

\* reason = result.get("denial_reason", default);
\* ActionDeniedError(f"Action denied: {reason}")
DeniedMessage(reason, default) ==
    "Action denied: " \o (IF reason = "" THEN default ELSE reason)

\* variant: an approval in the POST response is confirmed by polling
PostResultAlwaysPolls(o, exp) ==
    CASE o = "401" -> VerifyActionExcept("AuthenticationError")
      [] o = "403" -> VerifyActionExcept("AuthenticationError")
      [] o = "404" -> SyntheticPending("Endpoint not found")
      [] o \in {"400", "500"} -> SyntheticPending("HTTP error")
      [] o = "neterr" -> VerifyActionExcept("RequestException")
      [] o = "badjson" -> VerifyActionExcept("JSONDecodeError")
      [] o = "denied" -> VerifyActionExcept("ActionDeniedError")
      [] o \in {"approved", "pending"} -> [NoResult EXCEPT !.tag = "poll"]
      [] OTHER -> VerifyActionExcept("VerificationError")

\* verify_action's reading of the response to its POST; "poll" stands for the
\* call of _wait_for_approval
PostResult(o, exp) ==
    CASE o = "401" -> VerifyActionExcept("AuthenticationError")
      [] o = "403" -> VerifyActionExcept("AuthenticationError")
      [] o = "404" -> SyntheticPending("Endpoint not found")
      [] o \in {"400", "500"} -> SyntheticPending("HTTP error")
      [] o = "neterr" -> VerifyActionExcept("RequestException")
      [] o = "badjson" -> VerifyActionExcept("JSONDecodeError")
      [] o = "approved" -> ApprovedRecord("v1", exp)
      [] o = "denied" -> VerifyActionExcept("ActionDeniedError")
      [] o = "pending" -> [NoResult EXCEPT !.tag = "poll"]
      [] OTHER -> VerifyActionExcept("VerificationError")

----------------------------------------------------------------------------
(* _wait_for_approval *)

\* while time.time() - start_time < timeout_seconds
DeadlineNotReached(t, st, to) == t - st < to * TicksPerSecond

\* poll_interval = min(poll_interval * 1.5, 10)
NextPollInterval(p) == Min((p * 3) \div 2, PollCap * TicksPerSecond)

\* variant: a 403 on a poll is treated as transient
PollExitRetryForbidden(o, status) ==
    CASE o = "401" -> "AuthenticationError"
      [] o = "404" -> "VerificationError"
      [] o \in {"403", "400", "500"} -> "continue"
      [] o \in {"neterr", "badjson"} -> "continue"
      [] o = "ok" /\ status = "approved" -> "approved"
      [] o = "ok" /\ status = "denied" -> "ActionDeniedError"
      [] OTHER -> "continue"

\* variant: a 5xx poll response ends the loop like a 404
PollExitFailFast(o, status) ==
    CASE o \in {"401", "403"} -> "AuthenticationError"
      [] o \in {"404", "500"} -> "VerificationError"
      [] o = "400" -> "continue"
      [] o \in {"neterr", "badjson"} -> "continue"
      [] o = "ok" /\ status = "approved" -> "approved"
      [] o = "ok" /\ status = "denied" -> "ActionDeniedError"
      [] OTHER -> "continue"

\* one iteration of the loop: "continue" (sleep and poll again), "approved"
\* (return the decision) or the exception that leaves the function
PollExit(o, status) ==
    CASE o \in {"401", "403"} -> "AuthenticationError"
      [] o = "404" -> "VerificationError"
      [] o \in {"400", "500"} -> "continue"
      [] o \in {"neterr", "badjson"} -> "continue"
      [] o = "ok" /\ status = "approved" -> "approved"
      [] o = "ok" /\ status = "denied" -> "ActionDeniedError"
      [] OTHER -> "continue"

----------------------------------------------------------------------------
(* log_action_result *)

\* variant: the literal does not depend on the outcome
ResultLiteralAlwaysSuccess(success) == "success"

\* "success" if success else "failure"
ResultLiteral(success) == IF success THEN "success" ELSE "failure"

\* the exception raised inside log_action_result's try block: by
\* session.request on a transport failure, by raise_for_status on a status >= 400
LogInnerException(o) ==
    CASE o = "200" -> "none"
      [] o = "neterr" -> "ConnectionError"
      [] o = "timeout" -> "Timeout"
      [] OTHER -> "HTTPError"

\* what "except Exception" catches
ExceptionSubclasses == {"HTTPError", "ConnectionError", "Timeout"}

\* variant: raise_for_status stands outside the try block
LogActionResultRaisesHttp(o) == LogInnerException(o) = "HTTPError"

\* log_action_result lets an exception out to its caller: never, the whole
\* body sits in try / except Exception: pass
LogActionResultRaises(o) ==
    LogInnerException(o) \notin ({"none"} \cup ExceptionSubclasses)

----------------------------------------------------------------------------
(* the wrappers *)

NoReturn == [tag |-> "none", error |-> FALSE, error_type |-> "", status |-> "", exc |-> ""]
\* the wrapped function's own value
ReturnValue == [NoReturn EXCEPT !.tag = "value"]
\* {"error": True, "error_type": ..., "error_message": ..., "action": ..., "status": ...}
ErrorRecord(etype, st) ==
    [NoReturn EXCEPT !.tag = "record", !.error = TRUE, !.error_type = etype, !.status = st]
RaiseToCaller(e) == [NoReturn EXCEPT !.tag = "raise", !.exc = e]
Proceed == [NoReturn EXCEPT !.tag = "proceed"]

\* the exception type the wrapped body throws when it throws
BodyException == "ValueError"

\* variant: any record verify_action returns lets the body run, as in
\* perform_action
WrapperGateAnyRecord(v) ==
    CASE v.tag = "raise" -> ErrorRecord(v.exc, "verification_failed")
      [] OTHER -> Proceed

\* variant: exceptions of verify_action are not caught
WrapperGateReraise(v) ==
    CASE v.tag = "raise" -> RaiseToCaller(v.exc)
      [] v.tag = "ret" /\ v.error # "" -> ErrorRecord("VerificationError", "verification_failed")
      [] v.tag = "ret" /\ ~v.verified -> ErrorRecord("ActionDenied", "denied")
      [] OTHER -> Proceed

\* track_action / require_approval: from the verify_action call to the point
\* where the body would start
WrapperGate(v) ==
    CASE v.tag = "raise" -> ErrorRecord(v.exc, "verification_failed")
      [] v.tag = "ret" /\ v.error # "" -> ErrorRecord("VerificationError", "verification_failed")
      [] v.tag = "ret" /\ ~v.verified -> ErrorRecord("ActionDenied", "denied")
      [] OTHER -> Proceed

\* perform_action: exceptions of verify_action propagate, any returned record
\* lets the body run
PerformGate(v) ==
    IF v.tag = "raise" THEN RaiseToCaller(v.exc) ELSE Proceed

\* verify_action called directly: its result is the caller's
DirectResult(v) ==
    IF v.tag = "raise" THEN RaiseToCaller(v.exc)
    ELSE [NoReturn EXCEPT !.tag = "decision", !.status = v.status]

Gate(k, v) ==
    CASE k \in Wrappers -> WrapperGate(v)
      [] k = "perform_action" -> PerformGate(v)
      [] OTHER -> DirectResult(v)

\* track_action / require_approval after the body: the function's value, or
\* an error record when the body threw
WrapperReturn(b) ==
    IF b = "returned" THEN ReturnValue
    ELSE ErrorRecord(BodyException, "execution_failed")

\* perform_action after the body: the function's value, or the re-raised
\* exception (an exception of the success log would be re-raised the same way)
PerformReturn(b, o) ==
    CASE b = "returned" /\ LogActionResultRaises(o) -> RaiseToCaller("LogError")
      [] b = "returned" -> ReturnValue
      [] OTHER -> RaiseToCaller(BodyException)

\* the result-log calls a wrapper makes once the body has ended with b, when
\* the result POST meets o
WrapperLogCalls(b, o) == <<ResultLiteral(b = "returned")>>

\* perform_action logs success inside the try whose handler logs failure
PerformLogCalls(b, o) ==
    IF b = "returned" /\ LogActionResultRaises(o)
    THEN <<ResultLiteral(TRUE), ResultLiteral(FALSE)>>
    ELSE <<ResultLiteral(b = "returned")>>

----------------------------------------------------------------------------
(* AIMClient: credentials and authenticated requests *)

\* no client has been constructed yet
NoClient ==
    [keys |-> FALSE, api_key |-> FALSE, oauth |-> FALSE, token |-> FALSE,
     auto_retry |-> FALSE, max_retries |-> 0]

\* max_retries: int = 3
DefaultMaxRetries == 3
\* a smaller max_retries a caller may pass
SmallMaxRetries == 1

\* __init__: "Either api_key OR (public_key + private_key) is required";
\* keys stands for signing_key, public_key and agent_id all being set, token
\* for the token manager handing out an access token
ValidClient(c) == (c.api_key \/ c.keys) /\ (c.token => c.oauth)

Clients ==
    {c \in [keys : BOOLEAN, api_key : BOOLEAN, oauth : BOOLEAN, token : BOOLEAN,
            auto_retry : BOOLEAN,
            max_retries : {SmallMaxRetries, DefaultMaxRetries}] : ValidClient(c)}

\* variant: the API key is looked at before the signing key
MakeRequestAuthApiKeyFirst(c) ==
    IF c.api_key THEN {"api_key"}
    ELSE IF c.keys THEN {"signature"}
    ELSE IF c.oauth /\ c.token THEN {"bearer"}
    ELSE {}

\* _make_request: the authentication headers put on the request; "signature"
\* is the quartet X-Agent-ID, X-Signature, X-Timestamp, X-Public-Key, whose
\* four headers are set together after the signing call.  The key was checked
\* by __init__, so signing a string endpoint and a serialisable body succeeds.
MakeRequestAuth(c) ==
    IF c.keys THEN {"signature"}
    ELSE IF c.api_key THEN {"api_key"}
    ELSE IF c.oauth /\ c.token THEN {"bearer"}
    ELSE {}

\* _wait_for_approval: the authentication headers put on the poll GET
PollAuth(c) ==
    IF c.api_key THEN {"api_key"}
    ELSE IF c.oauth /\ c.token THEN {"bearer"}
    ELSE {}

\* log_action_result: the authentication headers put on the result POST
LogAuth(c) ==
    IF c.api_key THEN {"api_key"}
    ELSE IF c.oauth /\ c.token THEN {"bearer"}
    ELSE {}

\* what one HTTP attempt of _make_request can meet
MrOutcomes == {"200", "401", "403", "404", "400", "500", "503",
               "timeout", "connerr", "reqerr"}

\* the failures _make_request retries
Retryable == {"500", "503", "timeout", "connerr"}

\* variant: a 404 is retried like a server error
MrStepRetriesNotFound(o, c, rc) ==
    CASE o \in {"401", "403"} -> "AuthenticationError"
      [] o \in Retryable \cup {"404"} /\ c.auto_retry /\ rc < c.max_retries -> "retry"
      [] o = "200" -> "json"
      [] OTHER -> "VerificationError"

\* _make_request after one attempt with retry_count rc: "retry", the returned
\* JSON, or the exception raised
MrStep(o, c, rc) ==
    CASE o \in {"401", "403"} -> "AuthenticationError"
      [] o \in Retryable /\ c.auto_retry /\ rc < c.max_retries -> "retry"
      [] o = "200" -> "json"
      [] OTHER -> "VerificationError"

\* the name time is local to _make_request (import time inside the signing
\* branch) and bound only once that branch has run
TimeBound(c) == c.keys

\* 2 ** retry_count
RECURSIVE Pow2(_)
Pow2(n) == IF n = 0 THEN 1 ELSE 2 * Pow2(n - 1)

----------------------------------------------------------------------------
(* _wait_for_approval of the SDK copy shipped with the demo agent *)

DemoPollOutcomes == {"401", "403", "404", "500", "neterr", "pending",
                     "approved", "denied"}

\* one iteration of that loop: the exit, or "continue"
DemoPollExit(o) ==
    CASE o \in {"401", "403"} -> "AuthenticationError"
      [] o = "approved" -> "approved"
      [] o = "denied" -> "ActionDeniedError"
      [] OTHER -> "continue"

\* the interval after the sleep that follows a poll that met o: multiplied
\* after a pending answer, left alone in the except clause
DemoNextInterval(p, o) ==
    IF o = "pending" THEN Min((p * 3) \div 2, PollCap * TicksPerSecond) ELSE p

----------------------------------------------------------------------------
(* Credential files and SecureCredentialStorage *)

\* the refresh tokens that tell one credentials dictionary from another
RefreshTokens == {"r0", "r1"}

\* what a credentials file can hold: a dictionary with a refresh token, or
\* one without the key refresh_token (agent entries only)
StoredCreds == RefreshTokens \cup {"nokey"}

\* a file that exists and parses (decrypts) to a credentials dictionary
Readable(f) == f \notin {"absent", "partial"}

\* the step of save_credentials that raises: "before" the file is opened
\* (mkdir, json.dumps, encrypt, open), in the middle of the write, at chmod,
\* or at the removal of the plaintext file
SaveFaults == {"none", "before", "write_partial", "chmod", "unlink"}

\* variant: the plaintext file is removed before the encrypted one is written
SecureSaveUnlinkFirst(plain, enc, creds, fail) ==
    CASE fail = "before" -> [plain |-> plain, enc |-> enc, raised |-> TRUE]
      [] fail = "unlink" /\ plain # "absent" ->
            [plain |-> plain, enc |-> enc, raised |-> TRUE]
      [] fail = "write_partial" ->
            [plain |-> "absent", enc |-> "partial", raised |-> TRUE]
      [] fail = "chmod" -> [plain |-> "absent", enc |-> creds, raised |-> TRUE]
      [] OTHER -> [plain |-> "absent", enc |-> creds, raised |-> FALSE]

\* SecureCredentialStorage.save_credentials: write_bytes of the encrypted
\* data, chmod 0o600, then unlink of the plaintext file if it exists
SecureSave(plain, enc, creds, fail) ==
    CASE fail = "before" -> [plain |-> plain, enc |-> enc, raised |-> TRUE]
      [] fail = "write_partial" ->
            [plain |-> plain, enc |-> "partial", raised |-> TRUE]
      [] fail = "chmod" -> [plain |-> plain, enc |-> creds, raised |-> TRUE]
      [] fail = "unlink" /\ plain # "absent" ->
            [plain |-> plain, enc |-> creds, raised |-> TRUE]
      [] OTHER -> [plain |-> "absent", enc |-> creds, raised |-> FALSE]

\* SecureCredentialStorage.load_credentials: the encrypted file if there is
\* one; else the plaintext file, migrated through save_credentials, with the
\* plaintext read again when the migration raised
SecureLoad(plain, enc, fail) ==
    IF enc # "absent"
    THEN [plain |-> plain, enc |-> enc,
          ret |-> IF Readable(enc) THEN enc ELSE "RuntimeError"]
    ELSE IF plain # "absent"
    THEN IF ~Readable(plain)
         THEN [plain |-> plain, enc |-> enc, ret |-> "None"]
         ELSE LET s == SecureSave(plain, enc, plain, fail)
              IN [plain |-> s.plain, enc |-> s.enc,
                  ret |-> IF ~s.raised THEN plain
                          ELSE IF s.plain # "absent" THEN s.plain ELSE "None"]
    ELSE [plain |-> plain, enc |-> enc, ret |-> "None"]

\* load_credentials takes its migration branch
Migrates(plain, enc) == enc = "absent" /\ Readable(plain)

----------------------------------------------------------------------------
(* OAuthTokenManager *)

\* threads that call get_access_token on the one manager
Callers == {"c1", "c2"}
MainCaller == "c1"

AccessTokens == {"a1", "a2"}

\* the 60 s buffer of get_access_token
ExpiryBuffer == 60
\* lifetimes the server puts into exp
Lifetimes == {ExpiryBuffer, ExpiryBuffer + 1}
\* the clock stops here
MaxNow == 1

\* the responses and save faults drawn while two threads call concurrently
ParAccess == {"a1"}
ParRefresh == {"none"}
ParFaults == {"none"}

\* a caller that has not called yet
NoCall ==
    [pc |-> "idle", path |-> "none", had |-> FALSE, margin |-> 0,
     sent |-> "none", resp |-> "none", nrefresh |-> 0,
     rsent |-> "none", rec |-> "none", nrecover |-> 0,
     rot |-> "none", saved |-> "none", ret |-> "unset"]

\* variant: a token whose expiry is exactly 60 s away still counts as valid
CachedValidInclusive(access, expiry, t) ==
    access # "None" /\ expiry # 0 /\ t <= expiry - ExpiryBuffer

\* get_access_token: the cached token is still valid (with 60s buffer)
CachedValid(access, expiry, t) ==
    access # "None" /\ expiry # 0 /\ t < expiry - ExpiryBuffer

\* what POST /auth/refresh can meet: 200, an error naming a revoked or an
\* invalid token, another error status, or an exception of requests
RefreshOutcomes == {"200", "401revoked", "400invalid", "500", "exception"}

\* variant: only "revoked" starts a recovery
NamesRevokedOnly(o) == o = "401revoked"

\* 'revoked' in error_msg.lower() or 'invalid' in error_msg.lower()
NamesRevoked(o) == o \in {"401revoked", "400invalid"}

\* what POST /auth/sdk/recover can meet
RecoverOutcomes == {"200", "401", "exception"}

\* OAuthTokenManager.save_credentials: through the secure storage if there
\* is one, else json.dump into credentials.json and chmod; every exception
\* is caught and answered with False
OAuthSave(secure, plain, enc, creds, fail) ==
    IF secure
    THEN LET s == SecureSave(plain, enc, creds, fail)
         IN [plain |-> s.plain, enc |-> s.enc, ok |-> ~s.raised]
    ELSE CASE fail = "before" -> [plain |-> plain, enc |-> enc, ok |-> FALSE]
           [] fail = "write_partial" ->
                 [plain |-> "partial", enc |-> enc, ok |-> FALSE]
           [] fail = "chmod" -> [plain |-> creds, enc |-> enc, ok |-> FALSE]
           [] OTHER -> [plain |-> creds, enc |-> enc, ok |-> TRUE]

\* OAuthTokenManager.load_credentials as __init__ calls it: the secure
\* storage first, the plaintext file next, None after any exception
OAuthLoad(secure, plain, enc, fail) ==
    LET l == IF secure THEN SecureLoad(plain, enc, fail)
             ELSE [plain |-> plain, enc |-> enc, ret |-> "None"]
    IN [plain |-> l.plain, enc |-> l.enc,
        creds |-> IF l.ret = "RuntimeError" THEN "None"
                  ELSE IF l.ret # "None" THEN l.ret
                  ELSE IF Readable(l.plain) THEN l.plain
                  ELSE "None"]

\* delete of the local files in revoke_token
RevokeDelete(secure, plain, enc) ==
    IF secure THEN <<"absent", "absent">> ELSE <<"absent", enc>>

----------------------------------------------------------------------------
(* register_agent, _save_credentials and _load_credentials *)

AgentNames == {"a", "b"}

\* Ed25519 seeds, and the verify key derived from a seed
SigningKeys == {1, 2}
VerifyKeyOffset == 10
VerifyKey(k) == k + VerifyKeyOffset
PublicKeys == {VerifyKey(k) : k \in SigningKeys}

\* no entry under a name; 0 is a missing key
NoEntry == [private_key |-> 0, public_key |-> 0]
NoEntries == [n \in AgentNames |-> NoEntry]

\* _register_via_oauth: the backend's public key if the response carries
\* one, else the generated one
StoredPublicKey(generated, backend) ==
    IF backend # 0 THEN backend ELSE generated

\* AIMClient.__init__: "Public key does not match private key"
KeysMatch(e) == VerifyKey(e.private_key) = e.public_key

\* open(creds_path, 'w'): the file exists and is empty
OpenForWrite(f) == [state |-> "empty", entries |-> NoEntries]

\* _save_credentials: all_creds, read from the file when it parses, with the
\* new entry put under the agent's name
AllCreds(f, n, e) ==
    [(IF f.state = "complete" THEN f.entries ELSE NoEntries) EXCEPT ![n] = e]

\* _load_credentials(name): None unless the file exists and parses
LoadEntry(f, n) == IF f.state = "complete" THEN f.entries[n] ELSE NoEntry

\* register_agent's arguments and environment that select the auth mode:
\* api_key and sdk_token_id are given (not None), load_sdk_credentials()
\* found embedded SDK credentials
RegArgs == [api_key : BOOLEAN, sdk_token_id : BOOLEAN, sdk_creds : BOOLEAN]
NoArgs == [api_key |-> FALSE, sdk_token_id |-> FALSE, sdk_creds |-> FALSE]
\* a call with only an API key, and one with only the SDK credentials
KeyOnlyArgs == [NoArgs EXCEPT !.api_key = TRUE]
SdkOnlyArgs == [NoArgs EXCEPT !.sdk_creds = TRUE]

\* auth_mode, "none" for the branch that raises ConfigurationError
AuthModeSdkFirst(a) ==
    IF a.sdk_creds THEN "oauth"
    ELSE IF a.api_key THEN "api_key"
    ELSE "none"

AuthMode(a) ==
    IF ~a.sdk_token_id /\ a.api_key THEN "api_key"
    ELSE IF a.sdk_creds THEN "oauth"
    ELSE IF a.api_key THEN "api_key"
    ELSE "none"

\* aim_url after the mode is chosen: OAuth mode falls back on the aim_url
\* of the SDK credentials
HasAimUrl(mode, aim_url, sdk_aim_url) ==
    IF mode = "oauth" THEN aim_url \/ sdk_aim_url ELSE aim_url

\* what client.report_detections meets
ReportOutcomes == {"ok", "HTTPError", "AuthenticationError", "ConnectionError"}

\* the try / except Exception: pass around client.report_detections
ReportPropagates(o) == IF o = "ok" THEN "client" ELSE "ConfigurationError"

ReportCaught(o) == "client"

\* the processes that save credentials, and the agent name each one saves
Procs == {"p1", "p2"}
SaveName(p) == IF p = "p1" THEN "a" ELSE "b"

NoSave == [pc |-> "idle", creds |-> NoEntry, all |-> NoEntries]

----------------------------------------------------------------------------
(* the aim_verify decorator of the SDK copy shipped with the demo agent *)

\* the client of the wrapper: aim_client when given, else with auto_init the
\* result of _get_or_create_client, which is a client or None
WrapperClient(aim_client, auto_init, created) ==
    IF aim_client # "None" THEN "aim_client"
    ELSE IF auto_init /\ created # "None" THEN "auto_init"
    ELSE "None"

\* resource_name: the decorator's resource, or module.name of func
ResourceName(resource) ==
    IF resource # "None" THEN resource ELSE "func.__module__.func.__name__"

\* client.verify_action(..., risk_level=risk_level) returns a record whose
\* "allowed" is true, false or missing, or raises
VerifyOutcomes ==
    {"allowed", "not_allowed", "no_allowed_key", "AuthenticationError",
     "ActionDeniedError", "VerificationError", "TypeError"}

\* the exception the try block meets before func is called
VerifyException(v) ==
    IF v \in {"not_allowed", "no_allowed_key"} THEN "PermissionError" ELSE v

\* func returns or raises
FuncOutcomes == {"returned", "raised"}

----------------------------------------------------------------------------
(* AIMClient.report_capabilities *)

Capabilities == {"read_files", "execute_code"}
\* the longest list of capabilities passed
MaxCaps == 3

RECURSIVE SeqsUpTo(_, _)
SeqsUpTo(S, n) ==
    IF n = 0 THEN {<<>>}
    ELSE LET shorter == SeqsUpTo(S, n - 1)
         IN shorter \cup {Append(s, x) : s \in shorter, x \in S}

CapabilityLists == SeqsUpTo(Capabilities, MaxCaps)

Range(s) == {s[i] : i \in DOMAIN s}

\* what the POST of one capability meets: a non-empty result, an empty one,
\* the duplicate-key error (a 500) for a capability the agent has already,
\* or another error
PostResponses(cap, srv) ==
    IF cap \in srv THEN {"result", "duplicate", "error"}
    ELSE {"result", "empty", "error"}

\* granted_count += 1: on a result, and on an exception whose text names a
\* duplicate or a 500
Counts(o) == o \in {"result", "duplicate"}

NoReport == [tag |-> "none", granted |-> 0, total |-> 0]

----------------------------------------------------------------------------
(* MCPDetector of the SDK copy shipped with the demo agent *)

\* server names a Claude Desktop config may list under mcpServers
ConfigServers == {"filesystem", "mcp-server-git", "mcp"}

\* module names of sys.modules, as their dotted parts
ModuleNames == {<<"mcp", "client">>, <<"json">>, <<"mcp-server-git">>}

\* names of installed distributions
DistNames == {"mcp-server-git", "mcp-server-fetch", "requests"}

\* _is_mcp_module: the lowercased module name contains mcp,
\* model_context_protocol or modelcontextprotocol
IsMcpModule(m) == \E i \in DOMAIN m : m[i] \in {"mcp", "mcp-server-git"}

\* _extract_package_name: module_name.split('.')[0]
ExtractPackageName(m) == m[1]

\* _is_mcp_package: a known package or an MCP naming pattern is contained
IsMcpPackage(p) == p \in {"mcp-server-git", "mcp-server-fetch"}

RECURSIVE SetToSeq(_)
SetToSeq(S) ==
    IF S = {} THEN <<>>
    ELSE LET x == CHOOSE y \in S : TRUE
         IN <<x>> \o SetToSeq(S \ {x})

NoConfig == [state |-> "absent", servers |-> {}]

\* distributions is None when importlib.metadata cannot be imported
NoDists == [available |-> FALSE, names |-> {}]
Distributions ==
    {NoDists} \cup {[available |-> TRUE, names |-> S] : S \in SUBSET DistNames}

\* the Claude Desktop config: absent, unreadable as JSON, or listing servers
ClaudeConfigs ==
    {NoConfig, [state |-> "corrupt", servers |-> {}]}
        \cup {[state |-> "json", servers |-> S] : S \in SUBSET ConfigServers}

\* detect_from_claude_config: one event per key of mcpServers
DetectFromClaudeConfig(c) ==
    IF c.state # "json" THEN <<>>
    ELSE LET names == SetToSeq(c.servers)
         IN [i \in DOMAIN names |->
                [mcpServer |-> names[i], detectionMethod |-> "claude_config"]]

\* detect_from_imports: detected_packages, then one event per package
DetectedPackages(mods, dists) ==
    {ExtractPackageName(m) : m \in {x \in mods : IsMcpModule(x)}}
        \cup (IF dists.available THEN {p \in dists.names : IsMcpPackage(p)} ELSE {})

DetectFromImports(mods, dists) ==
    LET names == SetToSeq(DetectedPackages(mods, dists))
    IN [i \in DOMAIN names |->
           [mcpServer |-> names[i], detectionMethod |-> "sdk_import"]]

\* detect_all: the config events extended by the import events
DetectAll(c, mods, dists) ==
    DetectFromClaudeConfig(c) \o DetectFromImports(mods, dists)

----------------------------------------------------------------------------
(* ProtocolDetector (sdks/python/aim_sdk/protocol_detection.py) *)

Protocols == {"mcp", "a2a", "oauth", "saml", "did", "acp"}
\* the order of the keys of _protocol_indicators
ProtocolOrder == <<"mcp", "a2a", "oauth", "saml", "did", "acp">>

\* _protocol_indicators
Indicators(p) ==
    CASE p = "mcp" -> {"MCP_SERVER_MODE", "MCP_SERVER_NAME", "MCP_TRANSPORT",
                       "@modelcontextprotocol", "mcp_server"}
      [] p = "a2a" -> {"A2A_AGENT_MODE", "AGENT_TO_AGENT", "A2A_ENDPOINT",
                       "opena2a", "agent_communication"}
      [] p = "oauth" -> {"OAUTH_CLIENT_ID", "OAUTH_CLIENT_SECRET",
                         "OAUTH_TOKEN_URL", "OAUTH_PROVIDER"}
      [] p = "saml" -> {"SAML_IDP_URL", "SAML_ENTITY_ID", "SAML_CERT",
                        "SAML_SSO_URL"}
      [] p = "did" -> {"DID_METHOD", "DID_RESOLVER", "DECENTRALIZED_ID"}
      [] p = "acp" -> {"ACP_AGENT_ID", "ACP_PROTOCOL_VERSION"}

\* names os.environ may hold
EnvNames ==
    {"MCP_TRANSPORT", "A2A_ENDPOINT", "OAUTH_PROVIDER", "SAML_CERT",
     "DID_METHOD", "ACP_PROTOCOL_VERSION", "OAUTH_SCOPE"}

\* key.startswith("OAUTH_")
StartsWithOAuth(e) ==
    e \in {"OAUTH_CLIENT_ID", "OAUTH_CLIENT_SECRET", "OAUTH_TOKEN_URL",
            "OAUTH_PROVIDER", "OAUTH_SCOPE"}

\* names sys.modules may hold, and the package names each one contains
LoadedModules == {"mcp.client", "opena2a", "requests_oauthlib", "json"}

ModuleContains(mod) ==
    CASE mod = "mcp.client" -> {"mcp"}
      [] mod = "opena2a" -> {"opena2a"}
      [] mod = "requests_oauthlib" -> {"oauthlib", "requests_oauthlib"}
      [] OTHER -> {}

\* values of explicit_protocol
ExplicitProtocols == {"None", "", "OAuth", "MCP", "saml", "grpc"}

\* str.lower()
Lower(s) ==
    CASE s = "OAuth" -> "oauth"
      [] s = "MCP" -> "mcp"
      [] OTHER -> s

\* _detect_from_environment: the first protocol with an indicator in
\* os.environ
RECURSIVE FirstIndicated(_, _)
FirstIndicated(i, env) ==
    IF i > Len(ProtocolOrder) THEN "None"
    ELSE IF Indicators(ProtocolOrder[i]) \cap env # {} THEN ProtocolOrder[i]
    ELSE FirstIndicated(i + 1, env)

DetectFromEnvironment(env) == FirstIndicated(1, env)

\* _detect_from_imports
AnyModuleContains(mods, names) ==
    \E mod \in mods : ModuleContains(mod) \cap names # {}

ProtocolFromImports(mods, env) ==
    IF AnyModuleContains(mods, {"mcp", "mcp_server", "mcp_client",
                                "modelcontextprotocol"}) THEN "mcp"
    ELSE IF AnyModuleContains(mods, {"opena2a", "a2a_client",
                                     "agent_communication"}) THEN "a2a"
    ELSE IF /\ AnyModuleContains(mods, {"oauthlib", "requests_oauthlib", "authlib"})
            /\ \E e \in env : StartsWithOAuth(e) THEN "oauth"
    ELSE "None"

\* detect_protocol without the explicit override
DetectedProtocol(env, mods) ==
    IF DetectFromEnvironment(env) # "None" THEN DetectFromEnvironment(env)
    ELSE IF ProtocolFromImports(mods, env) # "None" THEN ProtocolFromImports(mods, env)
    ELSE "mcp"

\* detect_protocol
DetectProtocol(explicit, env, mods) ==
    IF explicit \notin {"None", ""} THEN Lower(explicit)
    ELSE DetectedProtocol(env, mods)

----------------------------------------------------------------------------
(* State machine *)

InitCred ==
    /\ plain_file = "absent"
    /\ enc_file = "absent"
    /\ sto_last = "none"
    /\ sto_fault = "none"
    /\ sto_ret = "none"
    /\ sto_before = "absent"
    /\ tm_state = "none"
    /\ tm_secure = FALSE
    /\ tm_creds = "None"
    /\ tm_access = "None"
    /\ tm_expiry = 0
    /\ tm_now = 0
    /\ call = [c \in Callers |-> NoCall]
    /\ rv_ret = "none"
    /\ creds_json = [state |-> "absent", entries |-> NoEntries]
    /\ secure_prims = TRUE
    /\ reg_pc = "idle"
    /\ reg_mode = "none"
    /\ reg_name = "a"
    /\ reg_creds = NoEntry
    /\ all_creds = NoEntries
    /\ reg_result = "none"
    /\ rd_obs = "none"
    /\ reg_args = NoArgs
    /\ reg_before = NoEntry
    /\ reg_http = {}
    /\ reg_report = "none"

Init ==
    /\ kind = "verify_action"
    /\ pc = "idle"
    /\ now = 0
    /\ timeout_seconds = 0
    /\ start_time = 0
    /\ poll_interval = PollInitial * TicksPerSecond
    /\ srv_status = "none"
    /\ srv_expires_at = NoExpiry
    /\ post_outcome = "none"
    /\ last_poll = "none"
    /\ wait_exit = "none"
    /\ sv = [p \in Procs |-> NoSave]
    /\ rc_pc = "idle"
    /\ rc_caps = <<>>
    /\ rc_i = 1
    /\ rc_granted = 0
    /\ rc_clean = TRUE
    /\ rc_srv = {}
    /\ rc_auto_retry = TRUE
    /\ rc_original = TRUE
    /\ rc_ret = NoReport
    /\ det_config = NoConfig
    /\ det_modules = {}
    /\ det_dists = NoDists
    /\ det_out = <<>>
    /\ dp_explicit = "None"
    /\ dp_env = {}
    /\ dp_modules = {}
    /\ dp_ret = "none"
    /\ av_pc = "idle"
    /\ av_strict = FALSE
    /\ av_client = "None"
    /\ av_resource = "none"
    /\ av_verif = "none"
    /\ av_exc = "none"
    /\ av_calls = <<>>
    /\ av_result = "none"
    /\ timed_out = FALSE
    /\ vres = NoResult
    /\ posts = 0
    /\ gets = 0
    /\ log_calls = <<>>
    /\ log_outcome = "none"
    /\ executed = 0
    /\ exec_time = 0
    /\ body = "none"
    /\ ret = NoReturn
    /\ srv_reason = ""
    /\ vmsg = ""
    /\ cfg = NoClient
    /\ req_pc = "none"
    /\ retry_count = 0
    /\ attempts = 0
    /\ sleeps = <<>>
    /\ mr_last = "none"
    /\ mr_result = "none"
    /\ sent_auth = {}
    /\ sent_by = "none"
    /\ dw_pc = "idle"
    /\ dw_elapsed = 0
    /\ dw_timeout = 0
    /\ dw_interval = PollInitial * TicksPerSecond
    /\ dw_gets = 0
    /\ dw_last = "none"
    /\ InitCred

\* a caller invokes a wrapped function (or verify_action itself)
Call ==
    /\ pc \in {"idle", "done"}
    /\ \E k \in Kinds :
         /\ kind' = k
         /\ \E to \in Timeouts :
              timeout_seconds' = IF k = "track_action" THEN TrackTimeout ELSE to
    /\ pc' = "post"
    /\ now' = 0
    /\ start_time' = 0
    /\ poll_interval' = PollInitial * TicksPerSecond
    /\ srv_status' = "none"
    /\ srv_expires_at' = NoExpiry
    /\ post_outcome' = "none"
    /\ last_poll' = "none"
    /\ wait_exit' = "none"
    /\ timed_out' = FALSE
    /\ vres' = NoResult
    /\ posts' = 0
    /\ gets' = 0
    /\ log_calls' = <<>>
    /\ log_outcome' = "none"
    /\ executed' = 0
    /\ exec_time' = 0
    /\ body' = "none"
    /\ ret' = NoReturn
    /\ srv_reason' = ""
    /\ vmsg' = ""
    /\ UNCHANGED <<reqVars, demoVars, credVars>>

\* verify_action: sign, POST, read the response
VerifyPost ==
    /\ pc = "post"
    /\ \E o \in PostOutcomes, d \in Latencies, ttl \in Ttls, rs \in Reasons :
         LET exp == IF o = "approved" THEN now + ttl ELSE NoExpiry
             r == PostResult(o, exp)
         IN /\ post_outcome' = o
            /\ srv_reason' = IF o = "denied" THEN rs ELSE ""
            /\ vmsg' = IF r.tag = "raise" /\ r.exc = "ActionDeniedError"
                       THEN DeniedMessage(rs, "Action denied by policy")
                       ELSE ""
            /\ posts' = posts + 1
            /\ now' = now + d
            /\ srv_status' = IF o \in {"approved", "denied", "pending"} THEN o ELSE "none"
            /\ srv_expires_at' = exp
            /\ IF r.tag = "poll"
               THEN /\ pc' = "poll"
                    /\ start_time' = now + d
                    /\ poll_interval' = PollInitial * TicksPerSecond
                    /\ vres' = vres
               ELSE /\ pc' = "verified"
                    /\ vres' = r
                    /\ UNCHANGED <<start_time, poll_interval>>
    /\ UNCHANGED <<kind, timeout_seconds, last_poll, wait_exit, timed_out, gets,
                   log_calls, log_outcome, executed, exec_time,
                   body, ret>>
    /\ UNCHANGED <<reqVars, demoVars, credVars>>

\* _wait_for_approval: the loop condition holds, one GET and its reading
PollGet ==
    /\ pc = "poll"
    /\ DeadlineNotReached(now, start_time, timeout_seconds)
    /\ \E o \in PollOutcomes :
         LET ex == PollExit(o, srv_status)
         IN /\ last_poll' = o
            /\ gets' = gets + 1
            /\ IF ex = "continue"
               THEN /\ pc' = "sleep"
                    /\ UNCHANGED <<wait_exit, vres, vmsg>>
               ELSE /\ pc' = "verified"
                    /\ wait_exit' = ex
                    /\ vmsg' = IF ex = "ActionDeniedError"
                               THEN DeniedMessage(srv_reason, "Action denied")
                               ELSE ""
                    /\ vres' = IF ex = "approved"
                               THEN ApprovedRecord("v1", srv_expires_at)
                               ELSE VerifyActionExcept(ex)
    /\ UNCHANGED <<kind, now, timeout_seconds, start_time, poll_interval, srv_status,
                   srv_expires_at, post_outcome, timed_out, posts, log_calls,
                   log_outcome, executed, exec_time, body, ret, srv_reason>>
    /\ UNCHANGED <<reqVars, demoVars, credVars>>

\* _wait_for_approval: time.sleep(poll_interval), then the interval grows
Sleep ==
    /\ pc = "sleep"
    /\ now' = now + poll_interval
    /\ poll_interval' = NextPollInterval(poll_interval)
    /\ pc' = "poll"
    /\ UNCHANGED <<kind, timeout_seconds, start_time, srv_status, srv_expires_at,
                   post_outcome, last_poll, wait_exit, timed_out, vres, posts, gets,
                   log_calls, log_outcome, executed, exec_time,
                   body, ret>>
    /\ UNCHANGED <<srv_reason, vmsg>>
    /\ UNCHANGED <<reqVars, demoVars, credVars>>

\* variant: at the deadline the client looks once more and accepts an
\* approval that has arrived meanwhile
PollTimeoutLateCheck ==
    /\ pc = "poll"
    /\ ~DeadlineNotReached(now, start_time, timeout_seconds)
    /\ pc' = "verified"
    /\ timed_out' = TRUE
    /\ wait_exit' = "VerificationError"
    /\ vres' = IF srv_status = "approved"
               THEN ApprovedRecord("v1", srv_expires_at)
               ELSE VerifyActionExcept("VerificationError")
    /\ UNCHANGED <<kind, now, timeout_seconds, start_time, poll_interval, srv_status,
                   srv_expires_at, post_outcome, last_poll, posts, gets, log_calls,
                   log_outcome, executed, exec_time, body, ret>>
    /\ UNCHANGED <<srv_reason, vmsg>>
    /\ UNCHANGED <<reqVars, demoVars, credVars>>

\* _wait_for_approval: the loop condition fails, VerificationError is raised
PollTimeout ==
    /\ pc = "poll"
    /\ ~DeadlineNotReached(now, start_time, timeout_seconds)
    /\ pc' = "verified"
    /\ timed_out' = TRUE
    /\ wait_exit' = "VerificationError"
    /\ vres' = VerifyActionExcept("VerificationError")
    /\ UNCHANGED <<kind, now, timeout_seconds, start_time, poll_interval, srv_status,
                   srv_expires_at, post_outcome, last_poll, posts, gets, log_calls,
                   log_outcome, executed, exec_time, body, ret>>
    /\ UNCHANGED <<srv_reason, vmsg>>
    /\ UNCHANGED <<reqVars, demoVars, credVars>>

\* the caller of verify_action looks at what it got
AfterVerify ==
    /\ pc = "verified"
    /\ LET g == Gate(kind, vres)
       IN IF g.tag = "proceed"
          THEN /\ pc' = "exec"
               /\ ret' = ret
          ELSE /\ pc' = "done"
               /\ ret' = g
    /\ UNCHANGED <<kind, now, timeout_seconds, start_time, poll_interval, srv_status,
                   srv_expires_at, post_outcome, last_poll, wait_exit, timed_out,
                   vres, posts, gets, log_calls, log_outcome,
                   executed, exec_time, body>>
    /\ UNCHANGED <<srv_reason, vmsg>>
    /\ UNCHANGED <<reqVars, demoVars, credVars>>

\* variant: a body that threw is called again
ExecuteBodyRetry ==
    /\ pc = "exec"
    /\ \E b \in {"returned", "threw"} :
         /\ body' = b
         /\ pc' = IF b = "threw" /\ executed = 0 THEN "exec" ELSE "log"
    /\ executed' = executed + 1
    /\ exec_time' = now
    /\ UNCHANGED <<kind, now, timeout_seconds, start_time, poll_interval, srv_status,
                   srv_expires_at, post_outcome, last_poll, wait_exit, timed_out,
                   vres, posts, gets, log_calls, log_outcome, ret>>
    /\ UNCHANGED <<srv_reason, vmsg>>
    /\ UNCHANGED <<reqVars, demoVars, credVars>>

\* result = func(*args, **kwargs)
ExecuteBody ==
    /\ pc = "exec"
    /\ \E b \in {"returned", "threw"} : body' = b
    /\ executed' = executed + 1
    /\ exec_time' = now
    /\ pc' = "log"
    /\ UNCHANGED <<kind, now, timeout_seconds, start_time, poll_interval, srv_status,
                   srv_expires_at, post_outcome, last_poll, wait_exit, timed_out,
                   vres, posts, gets, log_calls, log_outcome, ret>>
    /\ UNCHANGED <<srv_reason, vmsg>>
    /\ UNCHANGED <<reqVars, demoVars, credVars>>

\* log_action_result, then the wrapper's return
LogAndReturn ==
    /\ pc = "log"
    /\ \E o \in LogOutcomes :
         /\ log_outcome' = o
         /\ log_calls' = log_calls \o (IF kind \in Wrappers
                                       THEN WrapperLogCalls(body, o)
                                       ELSE PerformLogCalls(body, o))
         /\ ret' = IF kind \in Wrappers
                   THEN WrapperReturn(body)
                   ELSE PerformReturn(body, o)
    /\ pc' = "done"
    /\ UNCHANGED <<kind, now, timeout_seconds, start_time, poll_interval, srv_status,
                   srv_expires_at, post_outcome, last_poll, wait_exit, timed_out,
                   vres, posts, gets, executed, exec_time, body>>
    /\ UNCHANGED <<srv_reason, vmsg>>
    /\ UNCHANGED <<reqVars, demoVars, credVars>>

\* the server (a reviewer, a policy) decides a pending request; this may
\* happen while the client sleeps or after it has given up
ServerDecide ==
    /\ srv_status = "pending"
    /\ \E dec \in {"approved", "denied"}, ttl \in Ttls, rs \in Reasons :
         /\ srv_status' = dec
         /\ srv_reason' = IF dec = "denied" THEN rs ELSE ""
         /\ srv_expires_at' = IF dec = "approved" THEN now + ttl ELSE NoExpiry
    /\ UNCHANGED <<kind, pc, now, timeout_seconds, start_time, poll_interval,
                   post_outcome, last_poll, wait_exit, timed_out, vres, posts, gets,
                   log_calls, log_outcome, executed, exec_time,
                   body, ret>>
    /\ UNCHANGED vmsg
    /\ UNCHANGED <<reqVars, demoVars, credVars>>

(* one client and its authenticated requests *)

\* AIMClient(...)
Construct ==
    /\ req_pc \in {"none", "idle", "done"}
    /\ cfg' \in Clients
    /\ req_pc' = "idle"
    /\ retry_count' = 0
    /\ attempts' = 0
    /\ sleeps' = <<>>
    /\ mr_last' = "none"
    /\ mr_result' = "none"
    /\ sent_auth' = {}
    /\ sent_by' = "none"
    /\ UNCHANGED <<verVars, demoVars, credVars>>

\* _make_request(method, endpoint, data) is called
MakeRequest ==
    /\ req_pc \in {"idle", "done"}
    /\ req_pc' = "attempt"
    /\ retry_count' = 0
    /\ attempts' = 0
    /\ sleeps' = <<>>
    /\ mr_last' = "none"
    /\ mr_result' = "none"
    /\ UNCHANGED <<cfg, sent_auth, sent_by>>
    /\ UNCHANGED <<verVars, demoVars, credVars>>

\* _make_request: build the headers, send, read the response
MrAttempt ==
    /\ req_pc = "attempt"
    /\ \E o \in MrOutcomes :
         LET step == MrStep(o, cfg, retry_count)
         IN /\ mr_last' = o
            /\ IF step = "retry"
               THEN /\ req_pc' = "backoff"
                    /\ mr_result' = mr_result
               ELSE /\ req_pc' = "done"
                    /\ mr_result' = step
    /\ attempts' = attempts + 1
    /\ sent_auth' = MakeRequestAuth(cfg)
    /\ sent_by' = "_make_request"
    /\ UNCHANGED <<cfg, retry_count, sleeps>>
    /\ UNCHANGED <<verVars, demoVars, credVars>>

\* _make_request: time.sleep(2 ** retry_count), then the recursive call
MrBackoff ==
    /\ req_pc = "backoff"
    /\ IF TimeBound(cfg)
       THEN /\ sleeps' = Append(sleeps, Pow2(retry_count))
            /\ retry_count' = retry_count + 1
            /\ req_pc' = "attempt"
            /\ mr_result' = mr_result
       ELSE /\ mr_result' = "UnboundLocalError"
            /\ req_pc' = "done"
            /\ UNCHANGED <<sleeps, retry_count>>
    /\ UNCHANGED <<cfg, attempts, mr_last, sent_auth, sent_by>>
    /\ UNCHANGED <<verVars, demoVars, credVars>>

\* _wait_for_approval sends a poll GET with this client
PollRequest ==
    /\ req_pc \in {"idle", "done"}
    /\ sent_auth' = PollAuth(cfg)
    /\ sent_by' = "poll"
    /\ UNCHANGED <<cfg, req_pc, retry_count, attempts, sleeps, mr_last, mr_result>>
    /\ UNCHANGED <<verVars, demoVars, credVars>>

\* log_action_result sends the result POST with this client
LogRequest ==
    /\ req_pc \in {"idle", "done"}
    /\ sent_auth' = LogAuth(cfg)
    /\ sent_by' = "log"
    /\ UNCHANGED <<cfg, req_pc, retry_count, attempts, sleeps, mr_last, mr_result>>
    /\ UNCHANGED <<verVars, demoVars, credVars>>

NextReq ==
    \/ Construct
    \/ MakeRequest
    \/ MrAttempt
    \/ MrBackoff
    \/ PollRequest
    \/ LogRequest

SpecReq == Init /\ [][NextReq]_vars

(* _wait_for_approval of the demo agent's SDK copy *)

DemoStart ==
    /\ dw_pc \in {"idle", "done"}
    /\ dw_timeout' \in Timeouts \cup {MidTimeout}
    /\ dw_pc' = "poll"
    /\ dw_elapsed' = 0
    /\ dw_interval' = PollInitial * TicksPerSecond
    /\ dw_gets' = 0
    /\ dw_last' = "none"
    /\ UNCHANGED <<verVars, reqVars, credVars>>

\* the loop condition holds: one GET and its reading
DemoPoll ==
    /\ dw_pc = "poll"
    /\ DeadlineNotReached(dw_elapsed, 0, dw_timeout)
    /\ \E o \in DemoPollOutcomes :
         /\ dw_last' = o
         /\ dw_pc' = IF DemoPollExit(o) = "continue" THEN "sleep" ELSE "done"
    /\ dw_gets' = dw_gets + 1
    /\ UNCHANGED <<dw_elapsed, dw_timeout, dw_interval>>
    /\ UNCHANGED <<verVars, reqVars, credVars>>

\* time.sleep(poll_interval)
DemoSleep ==
    /\ dw_pc = "sleep"
    /\ dw_elapsed' = dw_elapsed + dw_interval
    /\ dw_interval' = DemoNextInterval(dw_interval, dw_last)
    /\ dw_pc' = "poll"
    /\ UNCHANGED <<dw_timeout, dw_gets, dw_last>>
    /\ UNCHANGED <<verVars, reqVars, credVars>>

\* the loop condition fails: VerificationError
DemoTimeout ==
    /\ dw_pc = "poll"
    /\ ~DeadlineNotReached(dw_elapsed, 0, dw_timeout)
    /\ dw_pc' = "done"
    /\ UNCHANGED <<dw_elapsed, dw_timeout, dw_interval, dw_gets, dw_last>>
    /\ UNCHANGED <<verVars, reqVars, credVars>>

NextDemo ==
    \/ DemoStart
    \/ DemoPoll
    \/ DemoSleep
    \/ DemoTimeout

SpecDemo == Init /\ [][NextDemo]_vars

(* SecureCredentialStorage on one credentials path *)

\* a downloaded SDK's plaintext credentials.json is copied into place
StoInstall ==
    /\ plain_file = "absent"
    /\ plain_file' \in StoredCreds
    /\ sto_last' = "install"
    /\ sto_fault' = "none"
    /\ sto_ret' = "none"
    /\ UNCHANGED <<enc_file, sto_before>>
    /\ rv_ret' = "none"
    /\ UNCHANGED <<tm_state, tm_secure, tm_creds, tm_access, tm_expiry, tm_now, call>>
    /\ UNCHANGED <<extVars, verVars, reqVars, demoVars, regVars>>

\* save_credentials(credentials)
StoSave ==
    /\ \E c \in RefreshTokens, f \in SaveFaults :
         LET s == SecureSave(plain_file, enc_file, c, f)
         IN /\ plain_file' = s.plain
            /\ enc_file' = s.enc
            /\ sto_fault' = IF s.raised THEN f ELSE "none"
            /\ sto_ret' = IF s.raised THEN "raised" ELSE "None"
    /\ sto_last' = "save"
    /\ UNCHANGED sto_before
    /\ UNCHANGED <<extVars, verVars, reqVars, demoVars, tokVars, regVars>>

\* load_credentials()
StoLoad ==
    /\ \E f \in SaveFaults :
         LET l == SecureLoad(plain_file, enc_file, f)
         IN /\ plain_file' = l.plain
            /\ enc_file' = l.enc
            /\ sto_ret' = l.ret
            /\ sto_fault' = IF Migrates(plain_file, enc_file)
                                /\ SecureSave(plain_file, enc_file, plain_file, f).raised
                             THEN f ELSE "none"
    /\ sto_last' = IF Migrates(plain_file, enc_file) THEN "migrate" ELSE "load"
    /\ sto_before' = IF Migrates(plain_file, enc_file) THEN plain_file ELSE sto_before
    /\ UNCHANGED <<extVars, verVars, reqVars, demoVars, tokVars, regVars>>

\* delete_credentials()
StoDelete ==
    /\ plain_file' = "absent"
    /\ enc_file' = "absent"
    /\ sto_last' = "delete"
    /\ sto_fault' = "none"
    /\ sto_ret' = "None"
    /\ UNCHANGED sto_before
    /\ UNCHANGED <<extVars, verVars, reqVars, demoVars, tokVars, regVars>>

NextSto ==
    \/ StoInstall
    \/ StoSave
    \/ StoLoad
    \/ StoDelete

SpecSto == Init /\ [][NextSto]_vars

(* one OAuthTokenManager, its callers and its credential files *)

\* OAuthTokenManager(credentials_path, use_secure_storage) in a new process
TmConstruct(F) ==
    /\ \A c \in Callers : call[c].pc \in {"idle", "done"}
    /\ \E sec \in BOOLEAN, f \in F :
         LET l == OAuthLoad(sec, plain_file, enc_file, f)
         IN /\ tm_secure' = sec
            /\ plain_file' = l.plain
            /\ enc_file' = l.enc
            /\ tm_creds' = l.creds
    /\ tm_state' = "ready"
    /\ tm_access' = "None"
    /\ tm_expiry' = 0
    /\ call' = [c \in Callers |-> NoCall]
    /\ rv_ret' = "none"
    /\ UNCHANGED tm_now
    /\ UNCHANGED <<extVars, verVars, reqVars, demoVars, stoVars, regVars>>

\* get_access_token() up to its return or to the POST /auth/refresh
GetAccessToken(c) ==
    /\ tm_state = "ready"
    /\ call[c].pc \in {"idle", "done"}
    /\ LET had == tm_access # "None" /\ tm_expiry # 0
           base == [NoCall EXCEPT !.had = had,
                                  !.margin = IF had THEN tm_expiry - tm_now ELSE 0]
       IN call' = [call EXCEPT ![c] =
            IF tm_creds = "None"
            THEN [base EXCEPT !.pc = "done", !.path = "nocreds", !.ret = "None"]
            ELSE IF CachedValid(tm_access, tm_expiry, tm_now)
            THEN [base EXCEPT !.pc = "done", !.path = "cached", !.ret = tm_access]
            ELSE IF tm_creds = "nokey"
            THEN [base EXCEPT !.pc = "done", !.path = "norefresh", !.ret = "None"]
            ELSE [base EXCEPT !.pc = "refresh", !.path = "refresh",
                              !.sent = tm_creds, !.nrefresh = 1]]
    /\ UNCHANGED <<tm_state, tm_secure, tm_creds, tm_access, tm_expiry, tm_now,
                   rv_ret>>
    /\ UNCHANGED <<extVars, verVars, reqVars, demoVars, diskVars, stoVars, regVars>>

\* _refresh_token: POST /auth/refresh answered 200
RefreshOk(c, A, R, F) ==
    /\ call[c].pc = "refresh"
    /\ \E a \in A \cup {"None"}, r \in R,
          lt \in Lifetimes, f \in F :
         LET rotated == r # "none" /\ r # call[c].sent
             \* self.credentials was set to None by revoke_token meanwhile
             broken == rotated /\ tm_creds = "None"
             s == IF rotated /\ ~broken
                  THEN OAuthSave(tm_secure, plain_file, enc_file, r, f)
                  ELSE [plain |-> plain_file, enc |-> enc_file, ok |-> TRUE]
         IN /\ tm_access' = a
            /\ tm_creds' = IF rotated /\ ~broken THEN r ELSE tm_creds
            /\ plain_file' = s.plain
            /\ enc_file' = s.enc
            /\ tm_expiry' = IF a # "None" /\ ~broken THEN tm_now + lt ELSE tm_expiry
            /\ call' = [call EXCEPT ![c] =
                 [@ EXCEPT !.pc = "done", !.resp = "200",
                           !.rot = IF rotated /\ ~broken THEN r ELSE "none",
                           !.saved = IF rotated /\ ~broken
                                     THEN (IF s.ok THEN "ok" ELSE "failed")
                                     ELSE "none",
                           !.ret = IF broken THEN "None" ELSE a]]
    /\ rv_ret' = IF <<plain_file', enc_file'>> = <<plain_file, enc_file>>
                  THEN rv_ret ELSE "none"
    /\ UNCHANGED <<tm_state, tm_secure, tm_now>>
    /\ UNCHANGED <<extVars, verVars, reqVars, demoVars, stoVars, regVars>>

\* _refresh_token: POST /auth/refresh answered with an error, or failed
RefreshFailed(c) ==
    /\ call[c].pc = "refresh"
    /\ \E o \in RefreshOutcomes \ {"200"} :
         call' = [call EXCEPT ![c] =
            IF NamesRevoked(o)
            THEN [@ EXCEPT !.pc = "recover", !.resp = o, !.rsent = call[c].sent,
                           !.nrecover = @ + 1]
            ELSE [@ EXCEPT !.pc = "done", !.resp = o, !.ret = "None"]]
    /\ UNCHANGED <<tm_state, tm_secure, tm_creds, tm_access, tm_expiry, tm_now,
                   rv_ret>>
    /\ UNCHANGED <<extVars, verVars, reqVars, demoVars, diskVars, stoVars, regVars>>

\* _refresh_token: POST /auth/sdk/recover answered 200
RecoverOk(c, A, R, F) ==
    /\ call[c].pc = "recover"
    /\ \E a \in A, r \in R,
          lt \in Lifetimes, f \in F :
         LET got == r # "none"
             broken == got /\ tm_creds = "None"
             s == IF got /\ ~broken
                  THEN OAuthSave(tm_secure, plain_file, enc_file, r, f)
                  ELSE [plain |-> plain_file, enc |-> enc_file, ok |-> TRUE]
         IN /\ tm_access' = a
            /\ tm_creds' = IF got /\ ~broken THEN r ELSE tm_creds
            /\ plain_file' = s.plain
            /\ enc_file' = s.enc
            /\ tm_expiry' = IF got /\ ~broken THEN tm_now + lt ELSE tm_expiry
            /\ call' = [call EXCEPT ![c] =
                 [@ EXCEPT !.pc = "done",
                           !.rec = IF got THEN "200" ELSE "200norefresh",
                           !.rot = IF got /\ ~broken THEN r ELSE "none",
                           !.saved = IF got /\ ~broken
                                     THEN (IF s.ok THEN "ok" ELSE "failed")
                                     ELSE "none",
                           !.ret = IF got /\ ~broken THEN a ELSE "None"]]
    /\ rv_ret' = IF <<plain_file', enc_file'>> = <<plain_file, enc_file>>
                  THEN rv_ret ELSE "none"
    /\ UNCHANGED <<tm_state, tm_secure, tm_now>>
    /\ UNCHANGED <<extVars, verVars, reqVars, demoVars, stoVars, regVars>>

\* _refresh_token: POST /auth/sdk/recover answered with an error, or failed
RecoverFailed(c) ==
    /\ call[c].pc = "recover"
    /\ \E o \in RecoverOutcomes \ {"200"} :
         call' = [call EXCEPT ![c] =
            [@ EXCEPT !.pc = "done", !.rec = o, !.ret = "None"]]
    /\ UNCHANGED <<tm_state, tm_secure, tm_creds, tm_access, tm_expiry, tm_now,
                   rv_ret>>
    /\ UNCHANGED <<extVars, verVars, reqVars, demoVars, diskVars, stoVars, regVars>>

\* revoke_token(), called while the threads in T are outside get_access_token
RevokeToken(T) ==
    /\ tm_state = "ready"
    /\ \A c \in T : call[c].pc \in {"idle", "done"}
    /\ IF tm_creds \in {"None", "nokey"}
       THEN /\ rv_ret' = "False"
            /\ UNCHANGED <<tm_creds, tm_access, tm_expiry, plain_file, enc_file>>
       ELSE \E o \in {"answered", "exception"} :
            LET d == RevokeDelete(tm_secure, plain_file, enc_file)
            IN /\ plain_file' = d[1]
               /\ enc_file' = d[2]
               /\ rv_ret' = IF o = "answered" THEN "True" ELSE "False"
               /\ tm_creds' = IF o = "answered" THEN "None" ELSE tm_creds
               /\ tm_access' = IF o = "answered" THEN "None" ELSE tm_access
               /\ tm_expiry' = IF o = "answered" THEN 0 ELSE tm_expiry
    /\ UNCHANGED <<tm_state, tm_secure, tm_now, call>>
    /\ UNCHANGED <<extVars, verVars, reqVars, demoVars, stoVars, regVars>>

\* a second passes
TmTick ==
    /\ tm_state = "ready"
    /\ tm_now < MaxNow
    /\ tm_now' = tm_now + 1
    /\ UNCHANGED <<tm_state, tm_secure, tm_creds, tm_access, tm_expiry, call,
                   rv_ret>>
    /\ UNCHANGED <<extVars, verVars, reqVars, demoVars, diskVars, stoVars, regVars>>

\* one thread uses the manager
NextTok ==
    \/ StoInstall
    \/ TmConstruct(SaveFaults)
    \/ GetAccessToken(MainCaller)
    \/ RefreshOk(MainCaller, AccessTokens, RefreshTokens \cup {"none"}, SaveFaults)
    \/ RefreshFailed(MainCaller)
    \/ RecoverOk(MainCaller, AccessTokens, RefreshTokens \cup {"none"}, SaveFaults)
    \/ RecoverFailed(MainCaller)
    \/ RevokeToken(Callers)
    \/ TmTick

SpecTok == Init /\ [][NextTok]_vars

\* several threads use the manager; get_access_token takes no lock, and a
\* thread can be preempted while its POST is in flight
NextTokPar ==
    \/ StoInstall
    \/ TmConstruct(ParFaults)
    \/ \E c \in Callers : GetAccessToken(c)
    \/ \E c \in Callers : RefreshOk(c, ParAccess, ParRefresh, ParFaults)
    \/ \E c \in Callers : RefreshFailed(c)
    \/ \E c \in Callers : RecoverOk(c, ParAccess, ParRefresh, ParFaults)
    \/ \E c \in Callers : RecoverFailed(c)
    \/ RevokeToken({})

SpecTokPar == Init /\ [][NextTokPar]_vars

(* register_agent in one process, _load_credentials in another *)

\* register_agent(name, force_new=...) up to the registration request, or to
\* its return when credentials for the name exist; A are the argument
\* combinations and SP the values of secure_prims the specification admits
RegStart(A, SP) ==
    /\ reg_pc \in {"idle", "done"}
    /\ creds_json.state \in {"absent", "complete"}
    /\ \E n \in AgentNames, force_new \in BOOLEAN, a \in A,
          aim_url \in BOOLEAN, sdk_aim_url \in BOOLEAN,
          k \in SigningKeys, sp \in SP :
         LET existing == LoadEntry(creds_json, n)
             m == AuthMode(a)
         IN /\ reg_name' = n
            /\ secure_prims' = sp
            /\ IF ~force_new /\ existing # NoEntry
               THEN /\ reg_pc' = "done"
                    /\ reg_mode' = "existing"
                    /\ reg_args' = NoArgs
                    /\ reg_creds' = existing
                    /\ reg_result' = IF KeysMatch(existing) THEN "client"
                                      ELSE "ConfigurationError"
               ELSE /\ reg_mode' = m
                    /\ reg_args' = a
                    /\ IF m = "none" \/ ~HasAimUrl(m, aim_url, sdk_aim_url)
                       THEN /\ reg_pc' = "done"
                            /\ reg_creds' = NoEntry
                            /\ reg_result' = "ConfigurationError"
                       ELSE /\ reg_pc' = "post"
                            /\ reg_creds' =
                                  IF m = "oauth"
                                  THEN [private_key |-> k, public_key |-> VerifyKey(k)]
                                  ELSE NoEntry
                            /\ reg_result' = "none"
            /\ reg_before' = existing
    /\ reg_http' = {}
    /\ reg_report' = "none"
    /\ UNCHANGED <<creds_json, all_creds, rd_obs>>
    /\ UNCHANGED <<extVars, verVars, reqVars, demoVars, diskVars, stoVars, tokVars>>

\* _register_via_oauth: token_manager.get_access_token() gives the cached
\* token, one fetched with a token request, or None
RegToken ==
    /\ reg_pc = "post"
    /\ reg_mode = "oauth"
    /\ "token" \notin reg_http
    /\ \E t \in {"refreshed", "None"} :
         /\ reg_http' = reg_http \cup {"token"}
         /\ IF t = "None"
            THEN reg_pc' = "done" /\ reg_result' = "ConfigurationError"
            ELSE UNCHANGED <<reg_pc, reg_result>>
    /\ UNCHANGED <<creds_json, secure_prims, reg_mode, reg_name, reg_creds, all_creds,
                   rd_obs, reg_args, reg_before, reg_report>>
    /\ UNCHANGED <<extVars, verVars, reqVars, demoVars, diskVars, stoVars, tokVars>>

\* the registration POST and the reading of its response
RegPost ==
    /\ reg_pc = "post"
    /\ reg_http' = reg_http \cup {"register"}
    /\ \E ok \in BOOLEAN, pub \in PublicKeys \cup {0}, priv \in SigningKeys :
         \* an error status, or a response of the API-key endpoint without
         \* public_key (KeyError in _save_credentials)
         IF ~ok \/ (reg_mode = "api_key" /\ pub = 0)
         THEN /\ reg_pc' = "done"
              /\ reg_result' = "ConfigurationError"
              /\ UNCHANGED reg_creds
         ELSE /\ reg_pc' = "save"
              /\ reg_result' = reg_result
              /\ reg_creds' =
                    IF reg_mode = "oauth"
                    THEN [private_key |-> reg_creds.private_key,
                          public_key |-> StoredPublicKey(reg_creds.public_key, pub)]
                    ELSE [private_key |-> priv, public_key |-> pub]
    /\ UNCHANGED <<creds_json, secure_prims, reg_mode, reg_name, all_creds, rd_obs,
                   reg_args, reg_before, reg_report>>
    /\ UNCHANGED <<extVars, verVars, reqVars, demoVars, diskVars, stoVars, tokVars>>

\* _save_credentials: read all_creds, add the entry, open(creds_path, 'w')
SaveOpen ==
    /\ reg_pc = "save"
    /\ all_creds' = AllCreds(creds_json, reg_name, reg_creds)
    /\ creds_json' = OpenForWrite(creds_json)
    /\ reg_pc' = "dump"
    /\ UNCHANGED <<secure_prims, reg_mode, reg_name, reg_creds, reg_result, rd_obs,
                   reg_args, reg_before, reg_http, reg_report>>
    /\ UNCHANGED <<extVars, verVars, reqVars, demoVars, diskVars, stoVars, tokVars>>

\* _save_credentials: json.dump has flushed a first part of the text
SaveDumpPart ==
    /\ reg_pc = "dump"
    /\ creds_json.state = "empty"
    /\ creds_json' = [creds_json EXCEPT !.state = "partial"]
    /\ UNCHANGED <<secure_prims, reg_pc, reg_mode, reg_name, reg_creds, all_creds,
                   reg_result, rd_obs, reg_args, reg_before, reg_http, reg_report>>
    /\ UNCHANGED <<extVars, verVars, reqVars, demoVars, diskVars, stoVars, tokVars>>

\* _save_credentials: the file is closed and chmod 0o600; then AIMClient(...)
\* and, with talks_to and detections, the step to the detection report
SaveCloseAndConstruct ==
    /\ reg_pc = "dump"
    /\ creds_json' = [state |-> "complete", entries |-> all_creds]
    /\ \E detections \in BOOLEAN :
         IF ~KeysMatch(reg_creds)
         THEN reg_pc' = "done" /\ reg_result' = "ConfigurationError"
         ELSE IF detections
         THEN reg_pc' = "report" /\ reg_result' = "none"
         ELSE reg_pc' = "done" /\ reg_result' = "client"
    /\ UNCHANGED <<secure_prims, reg_mode, reg_name, reg_creds, all_creds, rd_obs,
                   reg_args, reg_before, reg_http, reg_report>>
    /\ UNCHANGED <<extVars, verVars, reqVars, demoVars, diskVars, stoVars, tokVars>>

\* client.report_detections(mcp_detections) inside try / except Exception
RegReport ==
    /\ reg_pc = "report"
    /\ \E o \in ReportOutcomes :
         /\ reg_report' = o
         /\ reg_result' = ReportCaught(o)
    /\ reg_http' = reg_http \cup {"report"}
    /\ reg_pc' = "done"
    /\ UNCHANGED <<creds_json, secure_prims, reg_mode, reg_name, reg_creds, all_creds,
                   rd_obs, reg_args, reg_before>>
    /\ UNCHANGED <<extVars, verVars, reqVars, demoVars, diskVars, stoVars, tokVars>>

\* another process: _load_credentials(name) opens and reads the file
ReadCredentials ==
    /\ rd_obs' = creds_json.state
    /\ UNCHANGED <<creds_json, secure_prims, reg_pc, reg_mode, reg_name, reg_creds,
                   all_creds, reg_result, reg_args, reg_before, reg_http, reg_report>>
    /\ UNCHANGED <<extVars, verVars, reqVars, demoVars, diskVars, stoVars, tokVars>>

NextReg ==
    \/ RegStart({KeyOnlyArgs, SdkOnlyArgs}, BOOLEAN)
    \/ RegToken
    \/ RegPost
    \/ SaveOpen
    \/ SaveDumpPart
    \/ SaveCloseAndConstruct
    \/ RegReport
    \/ ReadCredentials

SpecReg == Init /\ [][NextReg]_vars

(* register_agent with every combination of its arguments, in one process *)

NextRegCall ==
    \/ RegStart(RegArgs, {TRUE})
    \/ RegToken
    \/ RegPost
    \/ SaveOpen
    \/ SaveCloseAndConstruct
    \/ RegReport

SpecRegCall == Init /\ [][NextRegCall]_vars

(* one call of a function wrapped by aim_verify *)

\* wrapper: the client is aim_client or the auto-initialised one; without a
\* client the wrapper raises ValueError
AvCall ==
    /\ av_pc \in {"idle", "done"}
    /\ \E strict \in BOOLEAN, aim_client \in {"client", "None"},
          auto_init \in BOOLEAN, created \in {"client", "None"},
          resource \in {"resource", "None"} :
          /\ av_strict' = strict
          /\ av_client' = WrapperClient(aim_client, auto_init, created)
          /\ IF av_client' = "None"
                THEN /\ av_pc' = "done"
                     /\ av_result' = "ValueError"
                     /\ av_resource' = "none"
                ELSE /\ av_pc' = "verify"
                     /\ av_result' = "none"
                     /\ av_resource' = ResourceName(resource)
    /\ av_verif' = "none"
    /\ av_exc' = "none"
    /\ av_calls' = <<>>
    /\ UNCHANGED <<pureVars, saveVars, verVars, reqVars, demoVars, diskVars, stoVars, tokVars, regVars>>

\* the except clause: re-raise under AIM_STRICT_MODE, else go on to the
\* fallback call of func
AvCaught(e) ==
    /\ av_exc' = e
    /\ IF av_strict
          THEN av_pc' = "done" /\ av_result' = e
          ELSE av_pc' = "fallback" /\ av_result' = "none"

\* client.verify_action and the test of verification.get("allowed", False)
AvVerify ==
    /\ av_pc = "verify"
    /\ \E v \in VerifyOutcomes :
          /\ av_verif' = v
          /\ IF v = "allowed"
                THEN av_pc' = "body" /\ UNCHANGED <<av_exc, av_result>>
                ELSE AvCaught(VerifyException(v))
    /\ UNCHANGED <<av_strict, av_client, av_resource, av_calls>>
    /\ UNCHANGED <<pureVars, saveVars, verVars, reqVars, demoVars, diskVars, stoVars, tokVars, regVars>>

\* return func(*args, **kwargs) inside the try block
AvBody ==
    /\ av_pc = "body"
    /\ \E b \in FuncOutcomes :
          /\ av_calls' = Append(av_calls, b)
          /\ IF b = "returned"
                THEN av_pc' = "done" /\ av_result' = "value" /\ UNCHANGED av_exc
                ELSE AvCaught("FuncError")
    /\ UNCHANGED <<av_strict, av_client, av_resource, av_verif>>
    /\ UNCHANGED <<pureVars, saveVars, verVars, reqVars, demoVars, diskVars, stoVars, tokVars, regVars>>

\* return func(*args, **kwargs) in the except clause
AvFallback ==
    /\ av_pc = "fallback"
    /\ \E b \in FuncOutcomes :
          /\ av_calls' = Append(av_calls, b)
          /\ av_result' = IF b = "returned" THEN "value" ELSE "FuncError"
    /\ av_pc' = "done"
    /\ UNCHANGED <<av_strict, av_client, av_resource, av_verif, av_exc>>
    /\ UNCHANGED <<pureVars, saveVars, verVars, reqVars, demoVars, diskVars, stoVars, tokVars, regVars>>

NextDec ==
    \/ AvCall
    \/ AvVerify
    \/ AvBody
    \/ AvFallback

SpecDec == Init /\ [][NextDec]_vars

(* _save_credentials called by two processes for two agent names *)

\* the variables of register_agent other than the credential file
regRest == <<secure_prims, reg_pc, reg_mode, reg_name, reg_creds, all_creds,
             reg_result, rd_obs, reg_args, reg_before, reg_http, reg_report>>

\* _save_credentials(agent_name, credentials) is called
SvCall(p) ==
    /\ sv[p].pc \in {"idle", "done"}
    /\ \E k \in SigningKeys :
         sv' = [sv EXCEPT ![p] = [pc |-> "read",
                                  creds |-> [private_key |-> k,
                                             public_key |-> VerifyKey(k)],
                                  all |-> NoEntries]]
    /\ UNCHANGED <<creds_json, regRest>>
    /\ UNCHANGED <<pureVars, decVars, verVars, reqVars, demoVars, diskVars, stoVars, tokVars>>

\* all_creds is read from the file and the entry is put under the name
SvRead(p) ==
    /\ sv[p].pc = "read"
    /\ sv' = [sv EXCEPT ![p].pc = "open",
                        ![p].all = AllCreds(creds_json, SaveName(p), sv[p].creds)]
    /\ UNCHANGED <<creds_json, regRest>>
    /\ UNCHANGED <<pureVars, decVars, verVars, reqVars, demoVars, diskVars, stoVars, tokVars>>

\* open(creds_path, 'w')
SvOpen(p) ==
    /\ sv[p].pc = "open"
    /\ creds_json' = OpenForWrite(creds_json)
    /\ sv' = [sv EXCEPT ![p].pc = "dump"]
    /\ UNCHANGED regRest
    /\ UNCHANGED <<pureVars, decVars, verVars, reqVars, demoVars, diskVars, stoVars, tokVars>>

\* json.dump(all_creds, f), close and chmod
SvClose(p) ==
    /\ sv[p].pc = "dump"
    /\ creds_json' = [state |-> "complete", entries |-> sv[p].all]
    /\ sv' = [sv EXCEPT ![p].pc = "done"]
    /\ UNCHANGED regRest
    /\ UNCHANGED <<pureVars, decVars, verVars, reqVars, demoVars, diskVars, stoVars, tokVars>>

NextSave ==
    \/ \E p \in Procs : SvCall(p)
    \/ \E p \in Procs : SvRead(p)
    \/ \E p \in Procs : SvOpen(p)
    \/ \E p \in Procs : SvClose(p)

SpecSave == Init /\ [][NextSave]_vars

(* report_capabilities of one client *)

othersCap == <<detVars, protoVars, decVars, saveVars, verVars, reqVars, demoVars,
               diskVars, stoVars, tokVars, regVars>>

\* report_capabilities(capabilities): the API-key test, the counters and
\* auto_retry switched off
RcCall ==
    /\ rc_pc \in {"idle", "done"}
    /\ \E caps \in CapabilityLists, api_key \in BOOLEAN, retry \in BOOLEAN :
         /\ rc_caps' = caps
         /\ IF api_key
            THEN /\ rc_pc' = "loop"
                 /\ rc_ret' = NoReport
                 /\ rc_original' = retry
                 /\ rc_auto_retry' = FALSE
            ELSE /\ rc_pc' = "done"
                 /\ rc_ret' = [NoReport EXCEPT !.tag = "ConfigurationError"]
                 /\ rc_original' = retry
                 /\ rc_auto_retry' = retry
    /\ rc_i' = 1
    /\ rc_granted' = 0
    /\ rc_clean' = TRUE
    /\ UNCHANGED rc_srv
    /\ UNCHANGED othersCap

\* one pass of the loop: the POST of capabilities[i] and the counting
RcPost ==
    /\ rc_pc = "loop"
    /\ rc_i <= Len(rc_caps)
    /\ \E o \in PostResponses(rc_caps[rc_i], rc_srv) :
         /\ rc_granted' = rc_granted
                + (IF Counts(o) THEN 1 ELSE 0)
         /\ rc_clean' = (rc_clean /\ o \in {"result", "duplicate"})
         /\ rc_srv' = IF o = "result" THEN rc_srv \cup {rc_caps[rc_i]} ELSE rc_srv
    /\ rc_i' = rc_i + 1
    /\ UNCHANGED <<rc_pc, rc_caps, rc_auto_retry, rc_original, rc_ret>>
    /\ UNCHANGED othersCap

\* the finally clause and the return
RcReturn ==
    /\ rc_pc = "loop"
    /\ rc_i > Len(rc_caps)
    /\ rc_auto_retry' = rc_original
    /\ rc_ret' = [tag |-> "ret", granted |-> rc_granted, total |-> Len(rc_caps)]
    /\ rc_pc' = "done"
    /\ UNCHANGED <<rc_caps, rc_i, rc_granted, rc_clean, rc_srv, rc_original>>
    /\ UNCHANGED othersCap

NextCap ==
    \/ RcCall
    \/ RcPost
    \/ RcReturn

SpecCap == Init /\ [][NextCap]_vars

(* detect_all in one environment *)

\* MCPDetector().detect_all()
DetectAllCall ==
    /\ \E c \in ClaudeConfigs, mods \in SUBSET ModuleNames,
          dists \in Distributions :
         /\ det_config' = c
         /\ det_modules' = mods
         /\ det_dists' = dists
         /\ det_out' = DetectAll(c, mods, dists)
    /\ UNCHANGED <<capVars, protoVars, decVars, saveVars, verVars, reqVars, demoVars,
                   diskVars, stoVars, tokVars, regVars>>

NextDet == DetectAllCall

SpecDet == Init /\ [][NextDet]_vars

(* detect_protocol in a process whose environment and modules change *)

\* os.environ[name] = value
SetEnviron ==
    /\ \E e \in EnvNames \ dp_env : dp_env' = dp_env \cup {e}
    /\ UNCHANGED <<dp_explicit, dp_modules, dp_ret>>
    /\ UNCHANGED <<capVars, detVars, decVars, saveVars, verVars, reqVars, demoVars,
                   diskVars, stoVars, tokVars, regVars>>

\* del os.environ[name]
DelEnviron ==
    /\ \E e \in dp_env : dp_env' = dp_env \ {e}
    /\ UNCHANGED <<dp_explicit, dp_modules, dp_ret>>
    /\ UNCHANGED <<capVars, detVars, decVars, saveVars, verVars, reqVars, demoVars,
                   diskVars, stoVars, tokVars, regVars>>

\* import of a module
ImportModule ==
    /\ \E m \in LoadedModules \ dp_modules : dp_modules' = dp_modules \cup {m}
    /\ UNCHANGED <<dp_explicit, dp_env, dp_ret>>
    /\ UNCHANGED <<capVars, detVars, decVars, saveVars, verVars, reqVars, demoVars,
                   diskVars, stoVars, tokVars, regVars>>

\* ProtocolDetector().detect_protocol(explicit_protocol)
DetectProtocolCall ==
    /\ \E explicit \in ExplicitProtocols :
         /\ dp_explicit' = explicit
         /\ dp_ret' = DetectProtocol(explicit, dp_env, dp_modules)
    /\ UNCHANGED <<dp_env, dp_modules>>
    /\ UNCHANGED <<capVars, detVars, decVars, saveVars, verVars, reqVars, demoVars,
                   diskVars, stoVars, tokVars, regVars>>

NextProto ==
    \/ SetEnviron
    \/ DelEnviron
    \/ ImportModule
    \/ DetectProtocolCall

SpecProto == Init /\ [][NextProto]_vars

Next ==
    \/ Call
    \/ VerifyPost
    \/ PollGet
    \/ Sleep
    \/ PollTimeout
    \/ AfterVerify
    \/ ExecuteBody
    \/ LogAndReturn
    \/ ServerDecide

Spec == Init /\ [][Next]_vars

----------------------------------------------------------------------------
(* Properties *)

\* the verification of the current invocation met a control-plane fault
VerificationFault ==
    \/ post_outcome \in {"401", "403", "404", "500", "neterr", "denied"}
    \/ wait_exit \in {"AuthenticationError", "ActionDeniedError", "VerificationError"}

\* the result-log POST of the current invocation met a control-plane fault
LogFault == log_outcome \in {"401", "404", "500", "neterr", "timeout"}

\* the server answered denied, to the POST or to a poll
Denied == post_outcome = "denied" \/ wait_exit = "ActionDeniedError"

\* C1: a function wrapped by track_action or require_approval runs its body
\* only if the verify_action call of the same invocation returned a record
\* with verified = true; after any other outcome the body is not run.
C1_BodyOnlyIfVerified ==
    (kind \in Wrappers /\ (pc \in {"exec", "log"} \/ executed > 0))
        => (vres.tag = "ret" /\ vres.verified)

C1_Witness ==
    kind \in Wrappers /\ executed = 1 /\ wait_exit = "approved" /\ vres.verified

\* C2: one call of a function wrapped by track_action or require_approval
\* invokes the underlying function at most once, whatever verification, the
\* body and result logging do.
C2_AtMostOnce == kind \in Wrappers => executed <= 1

C2_Witness ==
    /\ kind \in Wrappers
    /\ pc = "done"
    /\ executed = 1
    /\ body = "threw"
    /\ log_outcome = "500"

\* C3: for every wrapped call (track_action, require_approval,
\* perform_action) whose body ran, exactly one result-log POST is attempted,
\* none before the body has ended, and it says success iff the body returned
\* without raising.
C3_ExactlyOneLog ==
    /\ (pc \in {"post", "poll", "sleep", "verified", "exec"} \/ body = "none")
          => log_calls = <<>>
    /\ (kind # "verify_action" /\ pc = "done" /\ executed > 0)
          => /\ Len(log_calls) = 1
             /\ log_calls[1] = "success" <=> body = "returned"
             /\ log_calls[1] = "failure" <=> body = "threw"

C3_Witness ==
    /\ kind = "perform_action"
    /\ pc = "done"
    /\ body = "threw"
    /\ log_calls = <<"failure">>

\* C4: once the verification of a wrapped call has ended by timeout, the body
\* is never executed for that invocation, also when the server approves the
\* request afterwards.
C4_NoRunAfterTimeout ==
    (kind \in Wrappers /\ timed_out) => (executed = 0 /\ pc \notin {"exec", "log"})

C4_Witness ==
    kind \in Wrappers /\ timed_out /\ pc = "done" /\ srv_status = "approved"

\* C5: a wrapped body never starts later than the expires_at of the decision
\* that authorised it.
C5_NotRunAfterExpiry ==
    (kind \in Wrappers /\ executed > 0) => exec_time <= vres.expires_at

\* C6 as stated: after any control-plane fault, during verification or result
\* logging, the wrapper returns a record with error = true and an error_type.
C6_FaultGivesErrorRecord ==
    (kind \in Wrappers /\ pc = "done" /\ (VerificationFault \/ LogFault))
        => (ret.tag = "record" /\ ret.error /\ ret.error_type # "")

\* C6 amended: the wrapper never raises; a fault during verification gives a
\* record with error = true and an error_type; a fault of the result-log POST
\* alone is swallowed and the wrapper returns what the body produced (its
\* value, or the execution_failed record when it threw).
C6_NeverRaises ==
    (kind \in Wrappers /\ pc = "done")
        => /\ ret.tag \in {"value", "record"}
           /\ VerificationFault
                => (ret.tag = "record" /\ ret.error /\ ret.error_type # "")
           /\ (~VerificationFault /\ LogFault /\ body = "returned")
                => ret.tag = "value"
           /\ (~VerificationFault /\ LogFault /\ body = "threw")
                => (ret.tag = "record" /\ ret.error /\ ret.status = "execution_failed")

C6_Witness ==
    /\ kind \in Wrappers
    /\ pc = "done"
    /\ log_outcome = "neterr"
    /\ body = "returned"
    /\ ret.tag = "value"

\* C7: when the server answers denied to a track_action-wrapped call, the
\* function is not invoked, no result-log POST is sent and the record
\* returned is {error: true, error_type: "ActionDenied", status: "denied"}.
C7_DeniedRecord ==
    (kind = "track_action" /\ pc = "done" /\ Denied)
        => /\ executed = 0
           /\ log_calls = <<>>
           /\ ret.tag = "record"
           /\ ret.error
           /\ ret.error_type = "ActionDenied"
           /\ ret.status = "denied"

C9_TimeoutRaises ==
    (post_outcome = "pending" /\ timed_out)
        => (vres.tag = "raise" /\ vres.exc = "VerificationError")

\* C10 as stated: _wait_for_approval ends only by approved, by denied, by a
\* 401/403, or by the deadline, and only the deadline gives VerificationError.
C10_OnlyDeadlineEndsLoop ==
    wait_exit # "none"
        => \/ wait_exit \in {"approved", "ActionDeniedError"} /\ last_poll = "ok"
           \/ wait_exit = "AuthenticationError" /\ last_poll \in {"401", "403"}
           \/ wait_exit = "VerificationError" /\ timed_out

\* C10 amended: a network failure or an HTTP error other than 401/403/404 on
\* a poll does not end the loop; the loop ends by approved, by denied, by a
\* 401/403, by a 404 or by the deadline, and VerificationError comes from the
\* deadline or from a 404.
C10_ErrorsKeepPolling ==
    /\ wait_exit # "none"
         => \/ wait_exit \in {"approved", "ActionDeniedError"} /\ last_poll = "ok"
            \/ wait_exit = "AuthenticationError" /\ last_poll \in {"401", "403"}
            \/ wait_exit = "VerificationError" /\ (timed_out \/ last_poll = "404")
    /\ (pc \in {"poll", "sleep"} /\ gets > 0)
         => last_poll \in {"400", "500", "neterr", "badjson", "ok"}

C10_Witness ==
    timed_out /\ last_poll \in {"500", "neterr"} /\ gets >= 2

\* the sleeps of the poll loop in eighths of a second: 2, 3, 4.5, 6.75, 10 s
SleepTable == <<16, 24, 36, 54, 80>>

\* the sleep that follows poll number n (n = 1, 2, ...)
ExpectedSleep(n) == IF n <= Len(SleepTable) THEN SleepTable[n] ELSE 80

\* the time slept during n complete poll iterations
RECURSIVE ExpectedElapsed(_)
ExpectedElapsed(n) == IF n <= 0 THEN 0 ELSE ExpectedElapsed(n - 1) + ExpectedSleep(n)

\* C11: a 401 or 403 answer to the initial POST or to a poll GET makes
\* verify_action raise AuthenticationError at once: no further request is
\* sent for the call and no synthetic pending record is returned.
C11_AuthErrorImmediate ==
    /\ post_outcome \in {"401", "403"}
         => /\ vres.tag = "raise"
            /\ vres.exc = "AuthenticationError"
            /\ posts = 1
            /\ gets = 0
            /\ pc \in {"verified", "done"}
    /\ last_poll \in {"401", "403"}
         => /\ vres.tag = "raise"
            /\ vres.exc = "AuthenticationError"
            /\ wait_exit = "AuthenticationError"
            /\ posts = 1
            /\ pc \in {"verified", "done"}
    /\ (kind = "verify_action" /\ pc = "done"
          /\ (post_outcome \in {"401", "403"} \/ last_poll \in {"401", "403"}))
         => ret = RaiseToCaller("AuthenticationError")

C11_Witness ==
    /\ kind = "verify_action"
    /\ pc = "done"
    /\ last_poll = "403"
    /\ gets = 2
    /\ ret.tag = "raise"

\* C12: when the server's decision is denied, in the POST response or in a
\* later poll, verify_action raises ActionDeniedError whose message carries
\* the server's denial reason; it returns no record.
C12_DeniedRaisesWithReason ==
    Denied
        => /\ vres.tag = "raise"
           /\ vres.exc = "ActionDeniedError"
           /\ srv_reason # "" => vmsg = "Action denied: " \o srv_reason
           /\ (kind = "verify_action" /\ pc = "done")
                => ret = RaiseToCaller("ActionDeniedError")

C12_Witness ==
    /\ kind = "verify_action"
    /\ pc = "done"
    /\ wait_exit = "ActionDeniedError"
    /\ srv_reason = "policy:write"
    /\ vmsg = "Action denied: policy:write"
    /\ ret.tag = "raise"

\* C13: when the POST response says approved with id v1, verify_action
\* returns verified = true and verification_id = v1 after exactly one POST and
\* no poll GET.
C13_AutoApproved ==
    post_outcome = "approved"
        => /\ vres.tag = "ret"
           /\ vres.verified
           /\ vres.verification_id = "v1"
           /\ posts = 1
           /\ gets = 0
           /\ pc \notin {"poll", "sleep"}

C13_Witness ==
    /\ kind = "verify_action"
    /\ pc = "done"
    /\ post_outcome = "approved"
    /\ ret.tag = "decision"
    /\ posts = 1
    /\ gets = 0

\* C14: when the POST response says pending and a poll GET (the third, in
\* the scenario) returns approved before the deadline, verify_action has sent
\* exactly one POST and one GET per poll (three, hence at least two, when the
\* third poll is the one approved, each earlier one followed by its sleep)
\* and returns verified = true for that verification id.
C14_PendingThenApproved ==
    (post_outcome = "pending" /\ wait_exit = "approved")
        => /\ posts = 1
           /\ gets >= 1
           /\ now - start_time = ExpectedElapsed(gets - 1)
           /\ gets >= 3 => now - start_time >= 5 * TicksPerSecond
           /\ ~timed_out
           /\ vres.tag = "ret"
           /\ vres.verified
           /\ vres.verification_id = "v1"

C14_Witness ==
    /\ post_outcome = "pending"
    /\ wait_exit = "approved"
    /\ gets = 3
    /\ posts = 1
    /\ vres.verified

\* the backoff of the main SDK copy: after n polls that did not end the loop
\* the interval is the (n+1)-th entry of 2, 3, 4.5, 6.75, 10, 10, ... and the
\* time slept is the sum of the first n
SdkBackoff ==
    pc = "poll"
        => /\ poll_interval = ExpectedSleep(gets + 1)
           /\ now - start_time = ExpectedElapsed(gets)

\* C15: the sleep between consecutive polls of _wait_for_approval starts at
\* 2 s, is multiplied by 1.5 after every poll iteration, whatever the poll met
\* (pending, HTTP error, network error, other exception), and never exceeds
\* 10 s: 2, 3, 4.5, 6.75, 10, 10, ...  Stated for the copy of the demo agent.
C15_BackoffEveryIteration ==
    /\ dw_interval <= PollCap * TicksPerSecond
    /\ dw_pc = "poll"
         => /\ dw_interval = ExpectedSleep(dw_gets + 1)
            /\ dw_elapsed = ExpectedElapsed(dw_gets)

\* C16: log_action_result never lets an error out to its caller: on an HTTP
\* error status, a network failure or a timeout of the result POST it returns
\* normally (perform_action, which does not guard the call, then returns the
\* function's value after a single log call).
C16_LogNeverRaises ==
    (pc = "done" /\ log_outcome # "none")
        => /\ ~LogActionResultRaises(log_outcome)
           /\ ret.exc # "LogError"
           /\ Len(log_calls) = 1
           /\ (kind = "perform_action" /\ body = "returned") => ret.tag = "value"

C16_Witness ==
    /\ kind = "perform_action"
    /\ pc = "done"
    /\ log_outcome = "timeout"
    /\ body = "returned"
    /\ ret.tag = "value"

\* C17: _make_request retries a status >= 500, a timeout or a connection
\* error while fewer than max_retries retries have been made, sleeping 2^n
\* seconds before retry n+1; a call whose attempts all fail this way makes
\* max_retries + 1 attempts, never more, and then ends with an error.
C17_RetriesUpToMax ==
    /\ attempts <= cfg.max_retries + 1
    /\ retry_count = Len(sleeps)
    /\ \A i \in 1..Len(sleeps) : sleeps[i] = Pow2(i - 1)
    /\ (req_pc = "done" /\ cfg.auto_retry /\ mr_last \in Retryable)
         => /\ attempts = cfg.max_retries + 1
            /\ mr_result \notin {"none", "json"}

\* C18: a 4xx response ends _make_request with that attempt: 401 and 403
\* raise AuthenticationError, every other 4xx fails, and none is retried; a
\* call whose first response is a 4xx has made exactly one attempt.
C18_NoRetryOn4xx ==
    mr_last \in {"401", "403", "404", "400"}
        => /\ req_pc = "done"
           /\ attempts = retry_count + 1
           /\ retry_count = 0 => attempts = 1
           /\ mr_last \in {"401", "403"} => mr_result = "AuthenticationError"
           /\ mr_last \in {"404", "400"} => mr_result = "VerificationError"

C18_Witness ==
    /\ req_pc = "done"
    /\ mr_last = "404"
    /\ attempts = 1
    /\ cfg.auto_retry
    /\ mr_result = "VerificationError"

\* C19: every authenticated request the client sends (_make_request, poll
\* GET, result-log POST) carries exactly one authentication scheme: never
\* two, never none.
C19_ExactlyOneScheme ==
    sent_by # "none" => Cardinality(sent_auth) = 1

\* C20 as stated: with several credentials available the scheme is chosen in
\* the order bearer token, API key, Ed25519 signature.
C20_BearerFirst ==
    sent_by = "_make_request"
        => /\ (cfg.oauth /\ cfg.token) => sent_auth = {"bearer"}
           /\ (~(cfg.oauth /\ cfg.token) /\ cfg.api_key) => sent_auth = {"api_key"}
           /\ (~(cfg.oauth /\ cfg.token) /\ ~cfg.api_key /\ cfg.keys)
                => sent_auth = {"signature"}

\* C20 amended: _make_request chooses in the order Ed25519 signature, API
\* key, bearer token; the poll GET and the result-log POST choose the API key
\* before the bearer token and never sign.
C20_SignatureFirst ==
    /\ sent_by = "_make_request"
         => /\ cfg.keys => sent_auth = {"signature"}
            /\ (~cfg.keys /\ cfg.api_key) => sent_auth = {"api_key"}
    /\ sent_by \in {"poll", "log"}
         => /\ cfg.api_key => sent_auth = {"api_key"}
            /\ (~cfg.api_key /\ cfg.oauth /\ cfg.token) => sent_auth = {"bearer"}
            /\ "signature" \notin sent_auth

C20_Witness ==
    /\ sent_by = "_make_request"
    /\ cfg.keys
    /\ cfg.api_key
    /\ cfg.oauth
    /\ cfg.token
    /\ sent_auth = {"signature"}

\* after the step, the file the manager's store keeps its credentials in
\* holds token t
StoreHolds(t) == IF tm_secure' THEN enc_file' = t ELSE plain_file' = t

\* after the step, token t can be read from one of the two files
StoreReadable(t) == plain_file' = t \/ enc_file' = t

\* C21: while several callers are inside get_access_token on one manager,
\* at most one POST /auth/refresh is in flight at any time.
C21_OneRefreshInFlight ==
    Cardinality({c \in Callers : call[c].pc = "refresh"}) <= 1

\* C22 as stated: get_access_token returns the cached token without HTTP
\* exactly when its expiry is at least 60 s away, the boundary included, and
\* otherwise posts to /auth/refresh.
C22_CachedAtSixty ==
    \A c \in Callers :
        call[c].path # "none"
            => /\ call[c].path = "cached"
                    <=> (call[c].had /\ call[c].margin >= ExpiryBuffer)
               /\ call[c].path # "cached" => call[c].nrefresh = 1

\* C22 amended: the cached token is returned without HTTP exactly when
\* credentials are loaded and the expiry is MORE than 60 s away (at exactly
\* 60 s the token is refreshed); otherwise, when the credentials hold a
\* refresh token, one POST /auth/refresh is sent with it; with no credentials
\* or no refresh token None is returned without any request.
C22_CachedBeyondSixty ==
    \A c \in Callers :
        /\ call[c].path = "cached"
             => /\ call[c].had /\ call[c].margin > ExpiryBuffer
                /\ call[c].ret \in AccessTokens
                /\ call[c].nrefresh = 0 /\ call[c].nrecover = 0
        /\ (call[c].path # "none" /\ call[c].had /\ call[c].margin > ExpiryBuffer)
             => call[c].path \in {"cached", "nocreds"}
        /\ call[c].path = "refresh"
             => call[c].nrefresh = 1 /\ call[c].sent \in RefreshTokens
        /\ call[c].path \in {"nocreds", "norefresh"}
             => /\ call[c].ret = "None"
                /\ call[c].nrefresh = 0 /\ call[c].nrecover = 0

C22_Witness ==
    /\ call[MainCaller].path = "refresh"
    /\ call[MainCaller].had
    /\ call[MainCaller].margin = ExpiryBuffer
    /\ call[MainCaller].nrefresh = 1

\* C23: when a refresh response carries a refresh token different from the
\* one sent, then as get_access_token returns the store holds the new
\* refresh token and the old one cannot be read from it.
C23_RotationReplacesStored ==
    [][\A c \in Callers :
          (call[c].pc = "refresh" /\ call'[c].pc = "done" /\ call'[c].rot # "none")
              => /\ StoreHolds(call'[c].rot)
                 /\ ~StoreReadable(call[c].sent)]_vars

\* C24: a refresh that fails with an error naming a revoked or invalid token
\* is followed by exactly one POST /auth/sdk/recover carrying the old refresh
\* token, and when the recovery does not succeed get_access_token returns
\* None; no other refresh failure starts a recovery.
C24_RecoverOnce ==
    \A c \in Callers :
        /\ call[c].nrecover <= 1
        /\ call[c].resp \in {"401revoked", "400invalid"}
             => /\ call[c].pc \in {"recover", "done"}
                /\ call[c].nrefresh = 1
                /\ call[c].nrecover = 1
                /\ call[c].rsent = call[c].sent
                /\ (call[c].pc = "done" /\ call[c].rec # "200")
                     => call[c].ret = "None"
        /\ call[c].resp \in {"500", "exception"}
             => call[c].nrecover = 0 /\ call[c].ret = "None"

C24_Witness ==
    /\ call[MainCaller].pc = "done"
    /\ call[MainCaller].resp = "400invalid"
    /\ call[MainCaller].rec = "exception"
    /\ call[MainCaller].nrecover = 1
    /\ call[MainCaller].ret = "None"

\* C25: when the refresh is answered 401 "revoked" and the recovery 200 with
\* an access token and a refresh token, get_access_token returns the
\* recovered access token and the persisted credentials hold the recovered
\* refresh token.
C25_RecoveredAndPersisted ==
    [][\A c \in Callers :
          (/\ call[c].pc = "recover" /\ call[c].resp = "401revoked"
           /\ call'[c].pc = "done" /\ call'[c].rec = "200")
              => /\ call'[c].ret \in AccessTokens
                 /\ call'[c].ret = tm_access'
                 /\ call'[c].rot \in RefreshTokens
                 /\ StoreHolds(call'[c].rot)]_vars

\* C26: after revoke_token() returns, neither credentials.json nor
\* credentials.encrypted exists, whatever /auth/revoke answered and whether
\* or not a refresh token was loaded.
C26_RevokeDeletesFiles ==
    rv_ret # "none" => plain_file = "absent" /\ enc_file = "absent"

\* C27: every entry registration writes to the credential store satisfies
\* public-key fidelity: the verify key derived from the stored private_key
\* equals the stored public_key, whatever public key the server returned.
C27_PublicKeyFidelity ==
    \A n \in AgentNames :
        creds_json.entries[n] # NoEntry => KeysMatch(creds_json.entries[n])

\* C28: without the cryptography or keyring primitive credential persistence
\* fails with a fatal error, and no save path ever leaves a private key in a
\* plaintext file.
C28_NoPlaintextSecrets ==
    /\ (~secure_prims /\ reg_pc = "done" /\ reg_mode \in {"oauth", "api_key"})
         => reg_result = "ConfigurationError"
    /\ \A n \in AgentNames : creds_json.entries[n].private_key = 0

\* C29: when load_credentials migrates plaintext credentials to the encrypted
\* file, whichever step fails (encrypting or writing the encrypted file,
\* chmod, removing the plaintext), the plaintext file or the encrypted file
\* still exists and holds the credentials afterwards.
C29_MigrationKeepsOne ==
    sto_last = "migrate"
        => /\ plain_file = sto_before \/ enc_file = sto_before
           /\ sto_before \in StoredCreds

C29_Witness ==
    /\ sto_last = "migrate"
    /\ sto_fault = "write_partial"
    /\ plain_file = sto_before
    /\ enc_file = "partial"
    /\ sto_ret = sto_before

\* C30: a process that reads the credential file while another writes it
\* never finds it empty or partially written.
C30_ReadersSeeWholeFile ==
    rd_obs \notin {"empty", "partial"}

\* with the write of save_credentials going through, the rotated and the
\* recovered refresh token replace the stored one
SavedRotationReplacesStored ==
    [][\A c \in Callers :
          (call[c].pc \in {"refresh", "recover"} /\ call'[c].pc = "done"
           /\ call'[c].saved = "ok" /\ (tm_secure \/ enc_file = "absent"))
              => /\ StoreHolds(call'[c].rot)
                 /\ call[c].sent # call'[c].rot => ~StoreReadable(call[c].sent)]_vars

\* revoke_token that got past its first test leaves no file behind when the
\* manager uses the secure storage
RevokeWithTokenDeletes ==
    (rv_ret # "none" /\ tm_secure /\ (rv_ret = "True" \/ tm_creds \in RefreshTokens))
        => plain_file = "absent" /\ enc_file = "absent"

\* C37: a function wrapped by perform_action is executed only if
\* verify_action returned a record with verified = true; after the synthetic
\* pending record (verified = false) of a 404, 5xx or network failure it is
\* not executed.
C37_PerformOnlyIfVerified ==
    (kind = "perform_action" /\ (pc \in {"exec", "log"} \/ executed > 0))
        => (vres.tag = "ret" /\ vres.verified)

\* C40: a function wrapped by aim_verify is invoked at most once per call of
\* the wrapper, for both settings of AIM_STRICT_MODE and also when the
\* function itself raises.
C40_AtMostOnce ==
    Len(av_calls) <= 1

\* C31: register_agent(name) without force_new and with credentials for name
\* in the store returns a client built from the stored credentials and sends
\* no HTTP request: no token request, no registration call, no report.
C31_ExistingReturnsClientOffline ==
    (reg_pc = "done" /\ reg_mode = "existing")
        => /\ reg_result = "client"
           /\ reg_creds = LoadEntry(creds_json, reg_name)
           /\ reg_http = {}

\* the path of the existing credentials sends nothing and uses the stored
\* entry, whether AIMClient accepts the entry or not
ExistingSendsNothing ==
    (reg_pc = "done" /\ reg_mode = "existing")
        => /\ reg_creds = LoadEntry(creds_json, reg_name)
           /\ reg_http = {}
           /\ reg_result = "client" <=> KeysMatch(reg_creds)

\* C32: the auth mode is chosen by the first rule that matches: an API key
\* with sdk_token_id None gives API-key mode; else embedded SDK credentials
\* give OAuth mode; else an API key gives API-key mode; else the call fails
\* with ConfigurationError before any request is sent.
C32_ModeByFirstMatch ==
    (reg_pc # "idle" /\ reg_mode # "existing")
        => IF reg_args.api_key /\ ~reg_args.sdk_token_id THEN reg_mode = "api_key"
           ELSE IF reg_args.sdk_creds THEN reg_mode = "oauth"
           ELSE IF reg_args.api_key THEN reg_mode = "api_key"
           ELSE /\ reg_mode = "none"
                /\ reg_pc = "done"
                /\ reg_result = "ConfigurationError"
                /\ reg_http = {}

\* a registration in API-key mode chosen by the third rule, with embedded
\* SDK credentials absent and sdk_token_id given, has returned its client
C32_Witness ==
    /\ reg_pc = "done"
    /\ reg_args = [api_key |-> TRUE, sdk_token_id |-> TRUE, sdk_creds |-> FALSE]
    /\ reg_mode = "api_key"
    /\ "register" \in reg_http
    /\ reg_result = "client"

\* C33: when the detection report at the end of a registration fails (HTTP
\* error, authentication error, network failure), register_agent still
\* returns the client and the credentials it persisted stay in the store.
C33_ReportFailureKeepsRegistration ==
    (reg_pc = "done" /\ reg_report \in ReportOutcomes \ {"ok"})
        => /\ reg_result = "client"
           /\ creds_json.state = "complete"
           /\ creds_json.entries[reg_name] = reg_creds

\* a registration whose detection report met an authentication error
C33_Witness ==
    /\ reg_pc = "done"
    /\ reg_report = "AuthenticationError"
    /\ "report" \in reg_http
    /\ reg_result = "client"
    /\ creds_json.entries[reg_name] = reg_creds

\* C38: when register_agent ends by raising (registration rejected, or the
\* keys found not to match while the client is built), the credential store
\* is as it was before the call: no entry under the name is created or
\* overwritten.
C38_FailedRegistrationWritesNothing ==
    (reg_pc = "done" /\ reg_mode \in {"oauth", "api_key"}
     /\ reg_result = "ConfigurationError")
        => LoadEntry(creds_json, reg_name) = reg_before

\* a registration that raised before _save_credentials leaves the entry alone
RejectedRegistrationWritesNothing ==
    (reg_pc = "done" /\ reg_mode \in {"oauth", "api_key", "none"}
     /\ reg_result = "ConfigurationError" /\ KeysMatch(reg_creds))
        => LoadEntry(creds_json, reg_name) = reg_before

\* C39: when two processes call _save_credentials concurrently for two
\* distinct agent names on one credential file, the file holds both agents'
\* entries once both calls have returned.
C39_BothEntriesKept ==
    (\A p \in Procs : sv[p].pc = "done")
        => /\ creds_json.state = "complete"
           /\ \A p \in Procs : creds_json.entries[SaveName(p)] # NoEntry

\* C34: report_capabilities called with a list that names a capability more
\* than once returns a granted count equal to the number of distinct
\* capabilities of the list, not to the number of entries attempted.
C34_GrantedCountsDistinct ==
    (rc_pc = "done" /\ rc_ret.tag = "ret" /\ rc_clean
     /\ Len(rc_caps) > Cardinality(Range(rc_caps)))
        => rc_ret.granted = Cardinality(Range(rc_caps))

\* granted is the number of list entries whose POST gave a result or met
\* the duplicate error, and never exceeds total
GrantedCountsEntries ==
    (rc_pc = "done" /\ rc_ret.tag = "ret")
        => /\ rc_ret.total = Len(rc_caps)
           /\ rc_ret.granted <= rc_ret.total
           /\ rc_clean => rc_ret.granted = Len(rc_caps)

\* C35: the combined output of detect_all holds each MCP server at most
\* once, also when a server is found both in the Claude config and among
\* the imported or installed packages.
C35_DetectAllDistinct ==
    \A i, j \in DOMAIN det_out :
        i # j => det_out[i].mcpServer # det_out[j].mcpServer

\* C36: detect_protocol returns one of mcp, a2a, oauth, saml, did, acp for
\* every explicit override, every environment and every set of loaded
\* modules.
C36_ReturnsKnownProtocol ==
    dp_ret # "none" => dp_ret \in Protocols

\* without an explicit override the result is one of the six protocols,
\* and an override is returned lowercased whatever it names
DetectedProtocolKnown ==
    [][/\ dp_ret' # dp_ret /\ dp_explicit' \in {"None", ""} => dp_ret' \in Protocols
       /\ dp_ret' # dp_ret /\ dp_explicit' \notin {"None", ""}
              => dp_ret' = Lower(dp_explicit')]_vars

====
